---- MODULE Spec2Model ----
(***************************************************************************)
(* A model of linux_mail_db: the correlation table (src/src/mail.rs,       *)
(* MailDB), the two log parsers (parse_mails, parse_mail_subjects) and the *)
(* file tailer (src/src/tail.rs, FileTail).                                *)
(*                                                                         *)
(* Each component has a specification of its own (SpecDB, SpecContent,     *)
(* SpecLog, SpecTail); the variables of the other components keep their    *)
(* initial values there.                                                   *)
(***************************************************************************)
EXTENDS Integers, Sequences, FiniteSets, TLC

VARIABLES
    MAIL_DB,    \* the table: recipient address -> sequence of Mail
    call,       \* the MailDB call in progress: [phase, caller, op, arg, ret]
    boot_pc,    \* init_mail: number of configured files already loaded
    mail_file,  \* parse_mail_subjects: the lines of its reader
    mails_with_subjects,  \* parse_mail_subjects: the Vec<Mail> returned
    mc_pc,      \* parse_mail_subjects: "ready" before the call, "done" after
    log_file,   \* parse_mails: the lines of its reader
    log_mails,  \* parse_mails: the Vec<Mail> returned
    log_pc,     \* parse_mails: "ready" before the call, "done" after
    pos,        \* FileTail.pos: the read offset
    watch_inc,  \* FileTail.watcher: the incarnation of the file it watches
    fs_file,    \* the file at file_path: [exists, inc, len]
    rx_fs_events,  \* the channel of filesystem events, oldest first
    tx_lines,   \* the channel of FileLines (capacity 5), oldest first; a
                \* FileLines is held as its number in the order of the reads
    tail_pc,    \* FileTail::tail: "recv", "send", "retry" or "failed"
    hand,       \* the FileLines a blocked send holds, 0 for none
    retry_i,    \* FileTail::retry: attempts made
    n_read,     \* FileLines made by FileTail::read
    consumed,   \* the FileLines the consumer has received, by number
    last,       \* the event handled last: [kind, pos before it, lines read]
    main_pc,    \* main: "select", "shutdown", "returned" or "exited"
    main_ret,   \* main's return: "none", "Ok", or the unit whose Err it is
    unit,       \* the tasks of the JoinSet: "running", "aborting" (abort
                \* asked, the poll in progress not ended), "aborted", or
                \* finished with "Ok" or "Err"
    joined,     \* the tasks join_next has returned
    tailer,     \* per tailer unit, FileTail: [pc, i (retry attempts made)]
    lines_sent, \* per tailer unit, FileLines sent in all
    chan,       \* per tailer unit, FileLines waiting in its channel
    consumer,   \* per tailer unit, its spawned consumer task
    deferred,   \* the deferred tasks of tail_mail, in the order spawned:
                \* [parsed (time), st ("asleep", "applied", "abandoned")]
    now,        \* the time
    delay,      \* Config.mail_parsing_delay
    response,   \* find_mail: the query answered last and its response
    missed,     \* history: the (to, id) pairs an update found no record for
    delivered,  \* history: per byte of the file, the times it was handed
                \* downstream
    live,       \* a tailed file at startup: its length, what init_mail has
                \* read of it, the offset FileTail::new took and how far
                \* FileTail::read has come
    batches     \* the tailed mail file in batches: the lines written, the
                \* offset of the tailer, the FileLines in the channel and
                \* what the consumer parsed out of each

dbVars == <<MAIL_DB, call, boot_pc>>
contentVars == <<mail_file, mails_with_subjects, mc_pc>>
logVars == <<log_file, log_mails, log_pc>>

tailVars == <<pos, watch_inc, fs_file, rx_fs_events, tx_lines, tail_pc, hand,
              retry_i, n_read, consumed, last>>

mainVars == <<main_pc, main_ret, unit, joined, tailer, lines_sent, chan,
              consumer, deferred, now, delay>>

vars == <<MAIL_DB, call, boot_pc, mail_file, mails_with_subjects, mc_pc,
          log_file, log_mails, log_pc, pos, watch_inc, fs_file,
          rx_fs_events,
          tx_lines, tail_pc, hand, retry_i, n_read, consumed, last,
          main_pc, main_ret, unit, joined, tailer, lines_sent, chan,
          consumer, deferred, now, delay, response, missed, delivered,
          live, batches>>

(***************************************************************************)
(* Option<String>::None                                                    *)
(***************************************************************************)
None == "<none>"

(***************************************************************************)
(* Bounds of the table model.                                              *)
(***************************************************************************)
MaxBatch == 2      \* records per Vec<Mail> handed to one call
MaxFiles == 1      \* files per configured list (log.files, mail.files)
MaxMailLines == 5  \* lines of a mail file handed to parse_mail_subjects
MaxLogLines == 2   \* lines of a delivery log handed to parse_mails
MaxLen == 1        \* bytes of the tailed file
MaxInc == 2        \* incarnations of the tailed file (1 + rotations)
MaxQueue == 1      \* filesystem events waiting in rx_fs_events
MaxReads == 6      \* FileLines made by FileTail::read in all
MaxLines == 2      \* FileLines each tailer unit sends, under the orchestrator
MaxTime == 1       \* the time, under the orchestrator
MaxDelay == 1      \* Config.mail_parsing_delay

(***************************************************************************)
(* struct Mail { id, line, subject, to }                                   *)
(***************************************************************************)
Mail(id, line, subject, to) ==
    [id |-> id, line |-> line, subject |-> subject, to |-> to]

\* Records as parse_mails makes them: subject None, line Some(line).  The
\* same (to, id) pair occurs with two different raw lines.
LogMails ==
    { Mail("ID1", "line1", None, "a@x"),
      Mail("ID1", "line2", None, "a@x"),
      Mail("ID2", "line3", None, "a@x"),
      Mail("ID1", "line4", None, "b@x") }

\* Records as parse_mail_subjects makes them: subject Some(s), line None.
SubjectMails ==
    { Mail("ID1", None, "s1", "a@x"),
      Mail("ID1", None, "s2", "a@x"),
      Mail("ID2", None, "s1", "a@x"),
      Mail("ID1", None, "s1", "b@x"),
      Mail("ID2", None, "s2", "b@x") }

SeqsUpTo(S, n) == UNION { [1..k -> S] : k \in 0..n }

\* hashmap.get(key).is_some()
HasBucket(db, to) == to \in DOMAIN db

\* The records stored for `to`, none when there is no bucket.
Bucket(db, to) == IF HasBucket(db, to) THEN db[to] ELSE <<>>

(***************************************************************************)
(* MailDB::insert_mails, the body of its loop: the bucket is created when  *)
(* absent, and the record is pushed unless a record of the bucket has its  *)
(* id.                                                                     *)
(***************************************************************************)
InsertOneNoDedup(st, m) ==
    LET d1 == IF HasBucket(st.db, m.to) THEN st.db ELSE st.db @@ (m.to :> <<>>)
    IN  [db |-> [d1 EXCEPT ![m.to] = Append(@, m)], updates |-> st.updates + 1]

InsertOneCountsDuplicates(st, m) ==
    LET d1 == IF HasBucket(st.db, m.to) THEN st.db ELSE st.db @@ (m.to :> <<>>)
    IN  IF ~ \E k \in 1..Len(d1[m.to]) : d1[m.to][k].id = m.id
        THEN [db |-> [d1 EXCEPT ![m.to] = Append(@, m)],
              updates |-> st.updates + 1]
        ELSE [db |-> d1, updates |-> st.updates + 1]

InsertOneReplaces(st, m) ==
    LET d1 == IF HasBucket(st.db, m.to) THEN st.db ELSE st.db @@ (m.to :> <<>>)
        b  == d1[m.to]
    IN  IF ~ \E k \in 1..Len(b) : b[k].id = m.id
        THEN [db |-> [d1 EXCEPT ![m.to] = Append(@, m)],
              updates |-> st.updates + 1]
        ELSE [db |-> [d1 EXCEPT ![m.to] =
                        [k \in 1..Len(b) |-> IF b[k].id = m.id THEN m ELSE b[k]]],
              updates |-> st.updates]

InsertOne(st, m) ==
    LET d1 == IF HasBucket(st.db, m.to) THEN st.db ELSE st.db @@ (m.to :> <<>>)
    IN  IF ~ \E k \in 1..Len(d1[m.to]) : d1[m.to][k].id = m.id
        THEN [db |-> [d1 EXCEPT ![m.to] = Append(@, m)],
              updates |-> st.updates + 1]
        ELSE [db |-> d1, updates |-> st.updates]

RECURSIVE InsertLoop(_, _)
InsertLoop(st, new_mails) ==
    IF new_mails = <<>> THEN st
    ELSE InsertLoop(InsertOne(st, Head(new_mails)), Tail(new_mails))

\* MailDB::insert_mails: the table afterwards and the count returned.
insert_mails(db, new_mails) == InsertLoop([db |-> db, updates |-> 0], new_mails)

(***************************************************************************)
(* MailDB::update_mail_subjects, the body of its loop: without a bucket a  *)
(* warning; otherwise the first record of the bucket with no subject and   *)
(* the incoming id takes the incoming subject.                             *)
(***************************************************************************)
\* The index of the first record of bucket b that update_mail_subjects
\* changes for new_mail, 0 when there is none.
FirstMatch(b, new_mail) ==
    LET hits == { k \in 1..Len(b) :
                    b[k].subject = None /\ b[k].id = new_mail.id }
    IN  IF hits = {} THEN 0
        ELSE CHOOSE k \in hits : \A j \in hits : k <= j

UpdateOneCreatesBucket(st, new_mail) ==
    LET d1 == IF HasBucket(st.db, new_mail.to) THEN st.db
              ELSE st.db @@ (new_mail.to :> <<>>)
        k  == FirstMatch(d1[new_mail.to], new_mail)
    IN  IF k = 0 THEN [db |-> d1, updates |-> st.updates]
        ELSE [db |-> [d1 EXCEPT ![new_mail.to][k].subject = new_mail.subject],
              updates |-> st.updates + 1]

UpdateOneOverwrites(st, new_mail) ==
    IF ~ HasBucket(st.db, new_mail.to) THEN st
    ELSE LET b    == st.db[new_mail.to]
             hits == { j \in 1..Len(b) : b[j].id = new_mail.id }
             k    == IF hits = {} THEN 0
                     ELSE CHOOSE j \in hits : \A i \in hits : j <= i
         IN  IF k = 0 THEN st
             ELSE [db |-> [st.db EXCEPT
                             ![new_mail.to][k].subject = new_mail.subject],
                   updates |-> st.updates + 1]

UpdateOneQueues(st, new_mail) ==
    LET d1 == IF HasBucket(st.db, new_mail.to) THEN st.db
              ELSE st.db @@ (new_mail.to :> <<>>)
        b  == d1[new_mail.to]
        k  == FirstMatch(b, new_mail)
    IN  IF k # 0
        THEN [db |-> [d1 EXCEPT ![new_mail.to][k].subject = new_mail.subject],
              updates |-> st.updates + 1]
        ELSE IF \E j \in 1..Len(b) : b[j].id = new_mail.id THEN st
        ELSE [db |-> [d1 EXCEPT ![new_mail.to] = Append(b, new_mail)],
              updates |-> st.updates]

UpdateOne(st, new_mail) ==
    IF ~ HasBucket(st.db, new_mail.to) THEN st
    ELSE LET k == FirstMatch(st.db[new_mail.to], new_mail)
         IN  IF k = 0 THEN st
             ELSE [db |-> [st.db EXCEPT
                             ![new_mail.to][k].subject = new_mail.subject],
                   updates |-> st.updates + 1]

RECURSIVE UpdateLoop(_, _)
UpdateLoop(st, new_mails) ==
    IF new_mails = <<>> THEN st
    ELSE UpdateLoop(UpdateOne(st, Head(new_mails)), Tail(new_mails))

\* MailDB::update_mail_subjects: the table afterwards and the count returned.
update_mail_subjects(db, new_mails) ==
    UpdateLoop([db |-> db, updates |-> 0], new_mails)

(***************************************************************************)
(* The callers of the table.  A caller parses a batch (Vec<Mail>), calls   *)
(* the table with it and takes the count returned.  The call itself holds  *)
(* the lock from its first statement to its last, so it is one step.       *)
(* `call` follows one call at a time: the batch in the caller's hands      *)
(* ("pending": parsed, or asleep in a deferred task), then the call made   *)
(* ("returned"), then nothing ("idle").                                    *)
(***************************************************************************)
Idle == [phase |-> "idle", caller |-> "none", op |-> "none",
         arg |-> <<>>, ret |-> 0]

Pending(caller, op, mails) ==
    [phase |-> "pending", caller |-> caller, op |-> op,
     arg |-> mails, ret |-> 0]

\* MailDB::new, and no call made yet.
InitDB ==
    /\ MAIL_DB = << >>
    /\ call = Idle
    /\ boot_pc = 0

\* init_mail_log: the next configured delivery-log file is parsed.
BootstrapLogParse ==
    /\ call.phase = "idle"
    /\ boot_pc < MaxFiles
    /\ \E mails \in SeqsUpTo(LogMails, MaxBatch) :
          call' = Pending("init_mail_log", "insert", mails)
    /\ UNCHANGED <<MAIL_DB, boot_pc, contentVars, logVars, tailVars>>

\* init_mail_subjects: the next configured mail file is parsed; runs after
\* init_mail_log has returned.
BootstrapSubjectsParse ==
    /\ call.phase = "idle"
    /\ boot_pc >= MaxFiles
    /\ boot_pc < 2 * MaxFiles
    /\ \E mails \in SeqsUpTo(SubjectMails, MaxBatch) :
          call' = Pending("init_mail_subjects", "update", mails)
    /\ UNCHANGED <<MAIL_DB, boot_pc, contentVars, logVars, tailVars>>

\* tail_mail_log's consumer: a batch of the live delivery log is parsed.
TailLogParse ==
    /\ call.phase = "idle"
    /\ \E mails \in SeqsUpTo(LogMails, MaxBatch) :
          call' = Pending("tail_mail_log", "insert", mails)
    /\ UNCHANGED <<MAIL_DB, boot_pc, contentVars, logVars, tailVars>>

\* tail_mail's consumer: a batch of the live mail file is parsed and handed
\* to a deferred task, which sleeps.
DeferredSpawn ==
    /\ call.phase = "idle"
    /\ \E mails \in SeqsUpTo(SubjectMails, MaxBatch) :
          call' = Pending("tail_mail", "update", mails)
    /\ UNCHANGED <<MAIL_DB, boot_pc, contentVars, logVars, tailVars>>

\* MAIL_DB.insert_mails(mails)
InsertMails ==
    /\ call.phase = "pending"
    /\ call.op = "insert"
    /\ LET r == insert_mails(MAIL_DB, call.arg)
       IN  /\ MAIL_DB' = r.db
           /\ call' = [call EXCEPT !.phase = "returned", !.ret = r.updates]
    /\ UNCHANGED <<boot_pc, contentVars, logVars, tailVars>>

\* MAIL_DB.update_mail_subjects(mails)
UpdateSubjects ==
    /\ call.phase = "pending"
    /\ call.op = "update"
    /\ LET r == update_mail_subjects(MAIL_DB, call.arg)
       IN  /\ MAIL_DB' = r.db
           /\ call' = [call EXCEPT !.phase = "returned", !.ret = r.updates]
    /\ UNCHANGED <<boot_pc, contentVars, logVars, tailVars>>

\* The caller takes the count and goes on: the bootstrap pass to its next
\* file, a consumer to its next batch; a deferred task ends.
Return ==
    /\ call.phase = "returned"
    /\ call' = Idle
    /\ boot_pc' = IF call.caller \in {"init_mail_log", "init_mail_subjects"}
                  THEN boot_pc + 1 ELSE boot_pc
    /\ UNCHANGED <<MAIL_DB, contentVars, logVars, tailVars>>

NextDB ==
    \/ BootstrapLogParse
    \/ BootstrapSubjectsParse
    \/ TailLogParse
    \/ DeferredSpawn
    \/ InsertMails
    \/ UpdateSubjects
    \/ Return

(***************************************************************************)
(* Text.  A string is a sequence of atoms; an atom is a run of characters  *)
(* that the parsers never look into: a word, or one of the characters they *)
(* search for.  " " is whitespace.                                         *)
(***************************************************************************)
\* str::contains(pat)
Contains(s, pat) ==
    \E i \in 1..(Len(s) - Len(pat) + 1) : SubSeq(s, i, i + Len(pat) - 1) = pat

\* str::starts_with(pat)
StartsWith(s, pat) == Len(s) >= Len(pat) /\ SubSeq(s, 1, Len(pat)) = pat

\* str::replace(pat, ""): every occurrence of pat, from the left, removed.
RECURSIVE Remove(_, _)
Remove(s, pat) ==
    IF Len(s) < Len(pat) \/ s = <<>> THEN s
    ELSE IF StartsWith(s, pat)
         THEN Remove(SubSeq(s, Len(pat) + 1, Len(s)), pat)
         ELSE <<Head(s)>> \o Remove(Tail(s), pat)

\* str::replace([c1, c2], ""): every character of the set removed.
RemoveChars(s, chars) ==
    LET Keep(c) == c \notin chars IN SelectSeq(s, Keep)

\* The last element of split_whitespace(): the longest run without
\* whitespace that ends at the last character that is not whitespace.
RECURSIVE LastToken(_)
LastToken(s) ==
    IF s = <<>> THEN <<>>
    ELSE IF s[Len(s)] = " " THEN LastToken(SubSeq(s, 1, Len(s) - 1))
    ELSE LET spaces == { i \in 1..Len(s) : s[i] = " " }
             from   == IF spaces = {} THEN 1
                       ELSE 1 + CHOOSE i \in spaces : \A j \in spaces : j <= i
         IN  SubSeq(s, from, Len(s))

(***************************************************************************)
(* parse_mail_subjects                                                     *)
(***************************************************************************)
ESMTPS_ID == <<"ESMTPS", " ", "id">>       \* "ESMTPS id"
TO_PREFIX == <<"To:", " ">>                \* "To: "
SUBJECT_PREFIX == <<"Subject:", " ">>      \* "Subject: "

\* Lines of a raw mail file.
MailLines ==
    { <<"by", " ", "mx", " ", "with", " ", "ESMTPS", " ", "id", " ", "IDX">>,
      <<"ESMTPS", " ", "id", " ", "IDY">>,
      <<"To:", " ", "<", "a@b.com", ">">>,
      <<"To:", " ", "c@d.com">>,
      <<"To:", " ", "<", ">">>,
      <<"Subject:", " ", "hi">>,
      <<"Subject:", " ", "Re:", " ", "yo">>,
      <<"Subject:", " ">>,
      <<"body", " ", "text">> }

\* The locals of parse_mail_subjects before its loop.
ParserStart ==
    [parse_mail |-> FALSE, id |-> <<>>, subject |-> <<>>, to |-> <<>>,
     mails |-> <<>>]

\* One turn of the loop of parse_mail_subjects.
ParseSubjectLineRestarts(st, line) ==
    LET st1 == IF Contains(line, ESMTPS_ID)
               THEN [st EXCEPT !.parse_mail = TRUE, !.id = LastToken(line),
                               !.subject = <<>>, !.to = <<>>]
               ELSE st
        st2 == IF st1.to = <<>> /\ StartsWith(line, TO_PREFIX)
               THEN [st1 EXCEPT !.to =
                        RemoveChars(Remove(line, TO_PREFIX), {"<", ">"})]
               ELSE st1
        st3 == IF st2.subject = <<>> /\ StartsWith(line, SUBJECT_PREFIX)
               THEN [st2 EXCEPT !.subject = Remove(line, SUBJECT_PREFIX)]
               ELSE st2
    IN  IF ~ st1.parse_mail THEN st1
        ELSE IF st3.subject # <<>> /\ st3.to # <<>> /\ st3.id # <<>>
        THEN [st3 EXCEPT !.parse_mail = FALSE,
                         !.mails = Append(@, Mail(st3.id, None,
                                                  st3.subject, st3.to))]
        ELSE st3

ParseSubjectLineKeepsCapturing(st, line) ==
    LET st1 == IF ~ st.parse_mail /\ Contains(line, ESMTPS_ID)
               THEN [st EXCEPT !.parse_mail = TRUE, !.id = LastToken(line),
                               !.subject = <<>>, !.to = <<>>]
               ELSE st
        st2 == IF st1.to = <<>> /\ StartsWith(line, TO_PREFIX)
               THEN [st1 EXCEPT !.to =
                        RemoveChars(Remove(line, TO_PREFIX), {"<", ">"})]
               ELSE st1
        st3 == IF st2.subject = <<>> /\ StartsWith(line, SUBJECT_PREFIX)
               THEN [st2 EXCEPT !.subject = Remove(line, SUBJECT_PREFIX)]
               ELSE st2
    IN  IF ~ st1.parse_mail THEN st1
        ELSE IF st3.subject # <<>> /\ st3.to # <<>> /\ st3.id # <<>>
        THEN [st3 EXCEPT !.mails = Append(@, Mail(st3.id, None,
                                                  st3.subject, st3.to))]
        ELSE st3

ParseSubjectLine(st, line) ==
    LET st1 == IF ~ st.parse_mail /\ Contains(line, ESMTPS_ID)
               THEN [st EXCEPT !.parse_mail = TRUE, !.id = LastToken(line),
                               !.subject = <<>>, !.to = <<>>]
               ELSE st
        st2 == IF st1.to = <<>> /\ StartsWith(line, TO_PREFIX)
               THEN [st1 EXCEPT !.to =
                        RemoveChars(Remove(line, TO_PREFIX), {"<", ">"})]
               ELSE st1
        st3 == IF st2.subject = <<>> /\ StartsWith(line, SUBJECT_PREFIX)
               THEN [st2 EXCEPT !.subject = Remove(line, SUBJECT_PREFIX)]
               ELSE st2
    IN  IF ~ st1.parse_mail THEN st1
        ELSE IF st3.subject # <<>> /\ st3.to # <<>> /\ st3.id # <<>>
        THEN [st3 EXCEPT !.parse_mail = FALSE,
                         !.mails = Append(@, Mail(st3.id, None,
                                                  st3.subject, st3.to))]
        ELSE st3

RECURSIVE ParseSubjectLoop(_, _)
ParseSubjectLoop(st, lines) ==
    IF lines = <<>> THEN st
    ELSE ParseSubjectLoop(ParseSubjectLine(st, Head(lines)), Tail(lines))

\* parse_mail_subjects(reader): the Vec<Mail> returned.
parse_mail_subjects(lines) == ParseSubjectLoop(ParserStart, lines).mails

\* Mail files of two whole messages, each a marker line, a To: line and a
\* Subject: line in either order, with at most one line between the two.
Messages ==
    { <<mk, hd[1], hd[2]>> :
        mk \in { l \in MailLines : Contains(l, ESMTPS_ID) },
        hd \in { h \in MailLines \X MailLines :
                   \/ /\ StartsWith(h[1], TO_PREFIX)
                      /\ StartsWith(h[2], SUBJECT_PREFIX)
                   \/ /\ StartsWith(h[1], SUBJECT_PREFIX)
                      /\ StartsWith(h[2], TO_PREFIX) } }

TwoMessageFiles ==
    { m1 \o gap \o m2 :
        m1 \in Messages, gap \in SeqsUpTo(MailLines, 1), m2 \in Messages }

\* A reader over a mail file, before parse_mail_subjects is called with it.
InitContent ==
    /\ mail_file \in SeqsUpTo(MailLines, MaxMailLines) \cup TwoMessageFiles
    /\ mails_with_subjects = <<>>
    /\ mc_pc = "ready"

\* No mail file at hand.
NoContent ==
    /\ mail_file = <<>>
    /\ mails_with_subjects = <<>>
    /\ mc_pc = "ready"

\* parse_mail_subjects(reader)
ParseMailSubjects ==
    /\ mc_pc = "ready"
    /\ mails_with_subjects' = parse_mail_subjects(mail_file)
    /\ mc_pc' = "done"
    /\ UNCHANGED <<mail_file, dbVars, logVars, tailVars>>

NextContent == ParseMailSubjects

(***************************************************************************)
(* parse_mails                                                             *)
(***************************************************************************)
POSTFIX_SMTP == <<"postfix/smtp[">>        \* "postfix/smtp["

IdLen == 10

\* The atoms of delivery-log lines and the number of bytes of each.
ByteLen ==
    [a \in {"00", "57", "01", "mx", "postfix/smtp[", "postfix/qmgr[", "123]",
            "ABCDEFGHIJ", "KLMNOPQRST", "ABCDEFGHI", "K", "to=", "u", "v",
            "d.com", "e.org", "root", "status=sent",
            ":", "<", ">", "@", ",", " "} |->
        CASE a \in {"ABCDEFGHIJ", "KLMNOPQRST"} -> 10
          [] a = "ABCDEFGHI" -> 9
          [] a \in {"postfix/smtp[", "postfix/qmgr["} -> 13
          [] a = "status=sent" -> 11
          [] a \in {"d.com", "e.org"} -> 5
          [] a \in {"123]", "root"} -> 4
          [] a = "to=" -> 3
          [] a \in {"00", "57", "01", "mx"} -> 2
          [] OTHER -> 1]

\* str::len(): the bytes of a string.
RECURSIVE StrLen(_)
StrLen(s) == IF s = <<>> THEN 0 ELSE ByteLen[Head(s)] + StrLen(Tail(s))

\* str::split(c): the fields between the occurrences of character c.
RECURSIVE Split(_, _)
Split(s, c) ==
    LET i == IF \E k \in 1..Len(s) : s[k] = c
             THEN CHOOSE k \in 1..Len(s) :
                    s[k] = c /\ \A j \in 1..(k - 1) : s[j] # c
             ELSE 0
    IN  IF i = 0 THEN <<s>>
        ELSE <<SubSeq(s, 1, i - 1)>> \o Split(SubSeq(s, i + 1, Len(s)), c)

\* Iterator::take(n)
Take(fields, n) ==
    IF Len(fields) <= n THEN fields ELSE SubSeq(fields, 1, n)

\* str::trim()
RECURSIVE Trim(_)
Trim(s) ==
    IF s = <<>> THEN s
    ELSE IF Head(s) = " " THEN Trim(Tail(s))
    ELSE IF s[Len(s)] = " " THEN Trim(SubSeq(s, 1, Len(s) - 1))
    ELSE s

\* id_from_log_line: the id, or None.
id_from_log_line(line) ==
    LET split_1 == Take(Split(line, ":"), 4)
    IN  IF Len(split_1) # 4 THEN None
        ELSE IF StrLen(Trim(split_1[4])) # IdLen THEN None
        ELSE Trim(split_1[4])

\* email_from_log_line: the address, or None.
email_from_log_line(line) ==
    LET split_1 == Take(Split(line, "<"), 2)
    IN  IF Len(split_1) # 2 THEN None
        ELSE LET split_2 == Take(Split(split_1[2], ">"), 1)
             IN  IF Len(split_2) # 1 \/ ~ Contains(split_2[1], <<"@">>)
                 THEN None
                 ELSE split_2[1]

\* One turn of the loop of parse_mails: the records pushed so far, and
\* one more when the line is a delivery line with an address and an id.
ParseLogLine(acc, line) ==
    IF ~ Contains(line, POSTFIX_SMTP) THEN acc
    ELSE IF email_from_log_line(line) = None THEN acc
    ELSE IF id_from_log_line(line) = None THEN acc
    ELSE IF email_from_log_line(line) # <<>> /\ id_from_log_line(line) # <<>>
    THEN Append(acc, Mail(id_from_log_line(line), line, None,
                          email_from_log_line(line)))
    ELSE acc

RECURSIVE ParseLogLoop(_, _)
ParseLogLoop(acc, lines) ==
    IF lines = <<>> THEN acc
    ELSE ParseLogLoop(ParseLogLine(acc, Head(lines)), Tail(lines))

\* parse_mails(reader): the Vec<Mail> returned.
parse_mails(lines) == ParseLogLoop(<< >>, lines)

\* Lines of a delivery log.
LogHead == <<"00", ":", "57", ":", "01", " ", "mx", " ">>

LogLines ==
    { \* a delivery line
      LogHead \o <<"postfix/smtp[", "123]", ":", " ", "ABCDEFGHIJ", ":", " ",
                   "to=", "<", "u", "@", "d.com", ">", ",", " ", "status=sent">>,
      \* another, for another id and address
      LogHead \o <<"postfix/smtp[", "123]", ":", " ", "KLMNOPQRST", ":", " ",
                   "to=", "<", "v", "@", "e.org", ">">>,
      \* no marker
      LogHead \o <<"postfix/qmgr[", "123]", ":", " ", "ABCDEFGHIJ", ":", " ",
                   "to=", "<", "u", "@", "d.com", ">">>,
      \* an id of 9 bytes, an id of 11
      LogHead \o <<"postfix/smtp[", "123]", ":", " ", "ABCDEFGHI", ":", " ",
                   "to=", "<", "u", "@", "d.com", ">">>,
      LogHead \o <<"postfix/smtp[", "123]", ":", " ", "ABCDEFGHIJ", "K", ":",
                   " ", "to=", "<", "u", "@", "d.com", ">">>,
      \* two colon-delimited fields only
      <<"mx", " ", "postfix/smtp[", "123]", ":", " ", "ABCDEFGHIJ", " ",
        "to=", "<", "u", "@", "d.com", ">">>,
      \* four fields, the fourth up to the end of the line
      <<"<", "v", "@", "e.org", ">", " ", "00", ":", "57", ":",
        "postfix/smtp[", "123]", ":", " ", "KLMNOPQRST", " ">>,
      \* no '@' between the brackets
      LogHead \o <<"postfix/smtp[", "123]", ":", " ", "ABCDEFGHIJ", ":", " ",
                   "to=", "<", "root", ">">>,
      \* no '<'
      LogHead \o <<"postfix/smtp[", "123]", ":", " ", "ABCDEFGHIJ", ":", " ",
                   "to=", "u", "@", "d.com">>,
      \* no '>' after the first '<'
      LogHead \o <<"postfix/smtp[", "123]", ":", " ", "ABCDEFGHIJ", ":", " ",
                   "to=", "<", "u", "@", "d.com">>,
      \* a second '<' before the '>'
      LogHead \o <<"postfix/smtp[", "123]", ":", " ", "ABCDEFGHIJ", ":", " ",
                   "to=", "<", "u", "<", "v", "@", "e.org", ">">> }

\* A reader over a delivery log, before parse_mails is called with it.
InitLog ==
    /\ log_file \in SeqsUpTo(LogLines, MaxLogLines)
    /\ log_mails = << >>
    /\ log_pc = "ready"

\* No delivery log at hand.
NoLog ==
    /\ log_file = << >>
    /\ log_mails = << >>
    /\ log_pc = "ready"

\* parse_mails(reader)
ParseMails ==
    /\ log_pc = "ready"
    /\ log_mails' = parse_mails(log_file)
    /\ log_pc' = "done"
    /\ UNCHANGED <<log_file, dbVars, contentVars, tailVars>>

NextLog == ParseMails

(***************************************************************************)
(* FileTail                                                                *)
(***************************************************************************)
LinesCap == 5      \* mpsc::channel(5)
Retries == 5       \* self.retry(5, ...)

\* notify's event kinds as parse_event tells them apart, and an error
\* delivered by the watcher in place of an event.
EventKinds == {"create", "remove", "modify", "access", "other", "error"}

\* A FileLines reads incarnation inc of the file from offset from on.
NoLines == [inc |-> 0, from |-> 0]

\* FileTail::reset: pos is set to 0, then the path is watched again, which
\* fails when there is no file at the path.
ResetKeepsPos(t, f) ==
    IF f.exists
    THEN [ok |-> TRUE, pos |-> t.pos, watch_inc |-> f.inc]
    ELSE [ok |-> FALSE, pos |-> t.pos, watch_inc |-> t.watch_inc]

reset(t, f) ==
    IF f.exists
    THEN [ok |-> TRUE, pos |-> 0, watch_inc |-> f.inc]
    ELSE [ok |-> FALSE, pos |-> 0, watch_inc |-> t.watch_inc]

\* FileTail::read: the file is opened, which fails when there is none; the
\* reader starts at pos, and pos becomes the length of the file.
read(t, f) ==
    IF f.exists
    THEN [ok |-> TRUE, pos |-> f.len, watch_inc |-> t.watch_inc,
          lines |-> [inc |-> f.inc, from |-> t.pos]]
    ELSE [ok |-> FALSE, pos |-> t.pos, watch_inc |-> t.watch_inc,
          lines |-> NoLines]

\* FileTail::parse_event: what it returns ("lines": Ok(Some), "none":
\* Ok(None), or the error) and what it leaves in pos and the watcher.
ParseEventErrorIsFileReading(t, f, kind) ==
    LET rs == reset(t, f)
        rr == read(rs, f)
        rd == read(t, f)
        same == [pos |-> t.pos, watch_inc |-> t.watch_inc, lines |-> NoLines]
    IN  CASE kind \in {"create", "remove"} ->
               IF ~ rs.ok
               THEN [res |-> "FileReading", pos |-> rs.pos,
                     watch_inc |-> rs.watch_inc, lines |-> NoLines]
               ELSE [res |-> IF rr.ok THEN "lines" ELSE "FileReading",
                     pos |-> rr.pos, watch_inc |-> rr.watch_inc,
                     lines |-> rr.lines]
          [] kind = "modify" ->
               [res |-> IF rd.ok THEN "lines" ELSE "FileReading",
                pos |-> rd.pos, watch_inc |-> rd.watch_inc,
                lines |-> rd.lines]
          [] kind = "access" -> [res |-> "none"] @@ same
          [] kind = "error" -> [res |-> "FileReading"] @@ same
          [] OTHER -> [res |-> "UnhandledEvent"] @@ same

parse_event(t, f, kind) ==
    LET rs == reset(t, f)
        rr == read(rs, f)
        rd == read(t, f)
        same == [pos |-> t.pos, watch_inc |-> t.watch_inc, lines |-> NoLines]
    IN  CASE kind \in {"create", "remove"} ->
               IF ~ rs.ok
               THEN [res |-> "FileReading", pos |-> rs.pos,
                     watch_inc |-> rs.watch_inc, lines |-> NoLines]
               ELSE [res |-> IF rr.ok THEN "lines" ELSE "FileReading",
                     pos |-> rr.pos, watch_inc |-> rr.watch_inc,
                     lines |-> rr.lines]
          [] kind = "modify" ->
               [res |-> IF rd.ok THEN "lines" ELSE "FileReading",
                pos |-> rd.pos, watch_inc |-> rd.watch_inc,
                lines |-> rd.lines]
          [] kind = "access" -> [res |-> "none"] @@ same
          [] kind = "error" -> [res |-> "Other"] @@ same
          [] OTHER -> [res |-> "UnhandledEvent"] @@ same

\* tx_lines.send(l).await: the FileLines joins the channel when the
\* channel has room; otherwise the sender waits with it.
SendDropsWhenFull(ch, l) ==
    IF Len(ch) < LinesCap
    THEN [ch |-> Append(ch, l), blocked |-> FALSE]
    ELSE [ch |-> ch, blocked |-> FALSE]

Send(ch, l) ==
    IF Len(ch) < LinesCap
    THEN [ch |-> Append(ch, l), blocked |-> FALSE]
    ELSE [ch |-> ch, blocked |-> TRUE]

\* FileTail::new: the file is there, pos is its length, the path is
\* watched, both channels are empty.
InitTail ==
    /\ fs_file \in [exists : {TRUE}, inc : {1}, len : 0..MaxLen]
    /\ pos = fs_file.len
    /\ watch_inc = 1
    /\ rx_fs_events = << >>
    /\ tx_lines = << >>
    /\ tail_pc = "recv"
    /\ hand = 0
    /\ retry_i = 0
    /\ n_read = 0
    /\ consumed = << >>
    /\ last = [kind |-> "none", pos |-> 0, lines |-> NoLines]

\* No file is tailed.
NoTail ==
    /\ fs_file = [exists |-> FALSE, inc |-> 0, len |-> 0]
    /\ pos = 0
    /\ watch_inc = 0
    /\ rx_fs_events = << >>
    /\ tx_lines = << >>
    /\ tail_pc = "recv"
    /\ hand = 0
    /\ retry_i = 0
    /\ n_read = 0
    /\ consumed = << >>
    /\ last = [kind |-> "none", pos |-> 0, lines |-> NoLines]

tailerVars == <<pos, watch_inc, tx_lines, tail_pc, hand, retry_i, n_read,
                consumed, last>>

\* The mail server appends to the file.
FsAppend ==
    /\ fs_file.exists
    /\ fs_file.len < MaxLen
    /\ fs_file' = [fs_file EXCEPT !.len = @ + 1]
    /\ UNCHANGED <<rx_fs_events, tailerVars>>

\* logrotate moves the file away ...
FsRemove ==
    /\ fs_file.exists
    /\ fs_file' = [fs_file EXCEPT !.exists = FALSE]
    /\ UNCHANGED <<rx_fs_events, tailerVars>>

\* ... and a new, empty file is made at the path.
FsCreate ==
    /\ ~ fs_file.exists
    /\ fs_file.inc < MaxInc
    /\ fs_file' = [exists |-> TRUE, inc |-> fs_file.inc + 1, len |-> 0]
    /\ UNCHANGED <<rx_fs_events, tailerVars>>

\* logrotate with copytruncate, or the mail server itself, truncates the
\* file in place: the same file, empty.
FsTruncate ==
    /\ fs_file.exists
    /\ fs_file.len > 0
    /\ fs_file' = [fs_file EXCEPT !.len = 0]
    /\ UNCHANGED <<rx_fs_events, tailerVars>>

\* The events waiting that lead to a read.
RECURSIVE Reading(_)
Reading(q) ==
    IF q = << >> THEN 0
    ELSE Reading(Tail(q))
         + (IF Head(q) \in {"create", "remove", "modify"} THEN 1 ELSE 0)

\* The watcher's callback: tx_fs_events.send(res)
WatcherEvent ==
    /\ Len(rx_fs_events) < MaxQueue
    /\ \E kind \in EventKinds :
          /\ kind \in {"create", "remove", "modify"}
                => n_read + Reading(rx_fs_events) < MaxReads
          /\ rx_fs_events' = Append(rx_fs_events, kind)
    /\ UNCHANGED <<fs_file, tailerVars>>

\* FileTail::tail, one turn of its loop up to the next await: an event is
\* received and parsed; lines are sent; a FileReading error starts retry.
TailEvent ==
    /\ tail_pc = "recv"
    /\ rx_fs_events # << >>
    /\ LET kind == Head(rx_fs_events)
           r == parse_event([pos |-> pos, watch_inc |-> watch_inc], fs_file, kind)
           l == n_read + 1
           s == Send(tx_lines, l)
       IN  /\ rx_fs_events' = Tail(rx_fs_events)
           /\ pos' = r.pos
           /\ watch_inc' = r.watch_inc
           /\ last' = [kind |-> kind, pos |-> pos, lines |-> r.lines]
           /\ IF r.res = "lines"
              THEN /\ tx_lines' = s.ch
                   /\ hand' = IF s.blocked THEN l ELSE 0
                   /\ tail_pc' = IF s.blocked THEN "send" ELSE "recv"
                   /\ n_read' = n_read + 1
                   /\ UNCHANGED retry_i
              ELSE /\ tail_pc' = IF r.res = "FileReading" THEN "retry"
                                 ELSE "recv"
                   /\ retry_i' = 0
                   /\ UNCHANGED <<tx_lines, hand, n_read>>
    /\ UNCHANGED <<fs_file, consumed>>

\* The send that waited goes through: the channel has room again.
TailSend ==
    /\ tail_pc = "send"
    /\ Len(tx_lines) < LinesCap
    /\ tx_lines' = Append(tx_lines, hand)
    /\ hand' = 0
    /\ tail_pc' = "recv"
    /\ UNCHANGED <<fs_file, rx_fs_events, pos, watch_inc, retry_i, n_read,
                   consumed, last>>

TailRetryForever ==
    /\ tail_pc = "retry"
    /\ LET r == reset([pos |-> pos, watch_inc |-> watch_inc], fs_file)
       IN  /\ pos' = r.pos
           /\ watch_inc' = r.watch_inc
           /\ retry_i' = 0
           /\ tail_pc' = IF r.ok THEN "recv" ELSE "retry"
    /\ UNCHANGED <<fs_file, rx_fs_events, tx_lines, hand, n_read, consumed,
                   last>>

\* FileTail::retry, one turn of its loop: after the sleep, reset; Ok ends
\* the loop, the last failure ends tail with the error.
TailRetry ==
    /\ tail_pc = "retry"
    /\ LET r == reset([pos |-> pos, watch_inc |-> watch_inc], fs_file)
       IN  /\ pos' = r.pos
           /\ watch_inc' = r.watch_inc
           /\ retry_i' = IF r.ok THEN 0 ELSE retry_i + 1
           /\ tail_pc' = IF r.ok THEN "recv"
                         ELSE IF retry_i + 1 = Retries THEN "failed"
                         ELSE "retry"
    /\ UNCHANGED <<fs_file, rx_fs_events, tx_lines, hand, n_read, consumed,
                   last>>

\* The consumer: rx_lines.recv().await
Consume ==
    /\ tx_lines # << >>
    /\ consumed' = Append(consumed, Head(tx_lines))
    /\ tx_lines' = Tail(tx_lines)
    /\ UNCHANGED <<fs_file, rx_fs_events, pos, watch_inc, tail_pc, hand,
                   retry_i, n_read, last>>

NextTail ==
    /\ \/ FsAppend
       \/ FsRemove
       \/ FsCreate
       \/ WatcherEvent
       \/ TailEvent
       \/ TailSend
       \/ TailRetry
       \/ Consume
    /\ UNCHANGED <<dbVars, contentVars, logVars>>

(***************************************************************************)
(* The bytes that reach the consumer.  A FileLines is a BufReader over the *)
(* file as it was opened, placed at the offset pos had: nothing is read    *)
(* until the consumer iterates it, and then it reads up to the end the     *)
(* file has at that time.  `delivered` is the history of it:               *)
(*   count[o]  how often the byte now at offset o of the file at the path  *)
(*             has been read by a consumer (2 stands for more than once);  *)
(*             the bytes there when FileTail::new ran count as read once,  *)
(*             by the bootstrap pass;                                      *)
(*   open[n]   for FileLines n, made and not yet consumed, the incarnation *)
(*             it has open and its offset;                                 *)
(*   dirty     the file has changed since the last read.                   *)
(***************************************************************************)
Offsets == 0..(MaxLen - 1)

InitDelivered ==
    delivered = [count |-> [o \in Offsets |-> IF o < fs_file.len THEN 1 ELSE 0],
                 open  |-> << >>,
                 dirty |-> FALSE]

\* byte_lines() over the BufReader, run by the consumer on FileLines n:
\* the bytes from its offset to the end of the file it has open.
ReadsToEnd(d, n, f) ==
    IF d.open[n].inc = f.inc
    THEN { o \in Offsets : d.open[n].from <= o /\ o < f.len }
    ELSE {}

\* The history after a step of the file, of tail or of the consumer.
DeliveredAfter ==
    IF fs_file' # fs_file
    THEN [delivered EXCEPT
            !.count = [o \in Offsets |->
                         IF fs_file'.inc = fs_file.inc /\ o < fs_file'.len
                         THEN @[o] ELSE 0],
            !.dirty = TRUE]
    ELSE IF n_read' # n_read
    THEN [delivered EXCEPT
            !.open = (n_read' :> last'.lines) @@ @,
            !.dirty = FALSE]
    ELSE IF consumed' # consumed
    THEN LET n == Head(tx_lines)
             read_now == ReadsToEnd(delivered, n, fs_file)
         IN  [delivered EXCEPT
                !.count = [o \in Offsets |->
                             IF o \in read_now
                             THEN (IF @[o] = 0 THEN 1 ELSE 2) ELSE @[o]],
                !.open = [m \in DOMAIN @ \ {n} |-> @[m]]]
    ELSE delivered

\* A FileTail runs on a file that is appended to, rotated and truncated.
NextBytes ==
    /\ \/ NextTail
       \/ FsTruncate /\ UNCHANGED <<dbVars, contentVars, logVars>>
    /\ delivered' = DeliveredAfter

(***************************************************************************)
(* main: the four tasks of the JoinSet, the consumer and deferred tasks    *)
(* the tailer units spawn, the interrupt.  A step of a task is one poll,   *)
(* from one await to the next.                                             *)
(***************************************************************************)
Units == {"start_http", "init_mail", "tail_mail_log", "tail_mail"}

Tailers == {"tail_mail_log", "tail_mail"}

\* What the parsers make of every file and FileLines here.
LogBatch == << Mail("ID1", "line1", None, "a@x") >>

SubjectBatch == << Mail("ID1", None, "s1", "a@x") >>

Active(u) == unit[u] \in {"running", "aborting"}

\* A task that was asked to abort is dropped at the await its poll ends at.
AfterPoll(u) == IF unit[u] = "aborting" THEN "aborted" ELSE "running"

\* JoinSet::abort_all, and the drop of the JoinSet.
AbortAll(un) ==
    [u \in Units |-> IF un[u] = "running" THEN "aborting" ELSE un[u]]

\* FileTail::tail: what it returns, by the way it ends.
TailEndedIsOk(why) == IF why = "channel closed" THEN "Ok" ELSE "Err"

tail_result(why) == "Err"

\* tail_mail, tail_mail_log: what the unit returns for what tail returned.
unit_result(r) == "Err"

\* FileTail::retry, attempt i + 1: where tail goes on.
RetryWithoutEnd(i, ok) == IF ok THEN "recv" ELSE "retry"

retry_result(i, ok) ==
    IF ok THEN "recv"
    ELSE IF i + 1 = Retries THEN "retries exhausted" ELSE "retry"

\* main, the join_next arm of select!: where main goes on with a result.
JoinLogsErr(res, all_joined) ==
    IF all_joined THEN "returned" ELSE "select"

join_result(res, all_joined) ==
    IF res = "Err" THEN "returned"
    ELSE IF all_joined THEN "returned" ELSE "select"

\* tokio::time::sleep(delay): the time the deferred task wakes at.
WakesAtOnce(parsed, d) == parsed

wakes_at(parsed, d) == parsed + d

InitMain ==
    /\ main_pc = "select"
    /\ main_ret = "none"
    /\ unit = [u \in Units |-> "running"]
    /\ joined = {}
    /\ tailer = [u \in Tailers |-> [pc |-> "new", i |-> 0, ret |-> "none"]]
    /\ lines_sent = [u \in Tailers |-> 0]
    /\ chan = [u \in Tailers |-> 0]
    /\ consumer = [u \in Tailers |-> "none"]
    /\ deferred = << >>
    /\ now = 0
    \* Duration::from_secs(config.mail_parsing_delay), a delay that is felt
    /\ delay \in 1..MaxDelay

\* main does not run.
NoMain ==
    /\ main_pc = "none"
    /\ main_ret = "none"
    /\ unit = [u \in Units |-> "none"]
    /\ joined = {}
    /\ tailer = [u \in Tailers |-> [pc |-> "none", i |-> 0, ret |-> "none"]]
    /\ lines_sent = [u \in Tailers |-> 0]
    /\ chan = [u \in Tailers |-> 0]
    /\ consumer = [u \in Tailers |-> "none"]
    /\ deferred = << >>
    /\ now = 0
    /\ delay = 0

\* start_http returns: the server stopped, or it could not start.
HttpEnds ==
    /\ main_pc # "exited"
    /\ Active("start_http")
    /\ \E res \in {"Ok", "Err"} : unit' = [unit EXCEPT !["start_http"] = res]
    /\ UNCHANGED <<MAIL_DB, boot_pc, main_pc, main_ret, joined, tailer,
                   lines_sent, chan, consumer, deferred, now, delay>>

\* init_mail, after a yield_now: the next configured file is opened, which
\* may fail, parsed and applied: the delivery logs first, then the mail
\* files; after the last one init_mail returns Ok.
InitMailFile ==
    /\ main_pc # "exited"
    /\ Active("init_mail")
    /\ boot_pc < 2 * MaxFiles
    /\ \E opened \in BOOLEAN :
          IF ~ opened
          THEN /\ unit' = [unit EXCEPT !["init_mail"] = "Err"]
               /\ UNCHANGED <<MAIL_DB, boot_pc>>
          ELSE /\ MAIL_DB' = IF boot_pc < MaxFiles
                             THEN insert_mails(MAIL_DB, LogBatch).db
                             ELSE update_mail_subjects(MAIL_DB, SubjectBatch).db
               /\ boot_pc' = boot_pc + 1
               /\ unit' = [unit EXCEPT !["init_mail"] =
                             IF boot_pc + 1 = 2 * MaxFiles THEN "Ok"
                             ELSE AfterPoll("init_mail")]
    /\ UNCHANGED <<main_pc, main_ret, joined, tailer, lines_sent, chan,
                   consumer, deferred, now, delay>>

\* tail_mail, tail_mail_log: FileTail::new, which fails when the file
\* cannot be opened; then the consumer task is spawned.
TailerNew(u) ==
    /\ main_pc # "exited"
    /\ Active(u)
    /\ tailer[u].pc = "new"
    /\ \E opened \in BOOLEAN :
          IF opened
          THEN /\ tailer' = [tailer EXCEPT ![u].pc = "recv"]
               /\ consumer' = [consumer EXCEPT ![u] = "running"]
               /\ unit' = [unit EXCEPT ![u] = AfterPoll(u)]
          ELSE /\ tailer' = [tailer EXCEPT ![u].pc = "open failed"]
               /\ unit' = [unit EXCEPT ![u] = "Err"]
               /\ UNCHANGED consumer
    /\ UNCHANGED <<MAIL_DB, boot_pc, main_pc, main_ret, joined, lines_sent,
                   chan, deferred, now, delay>>

\* FileTail::tail: an event gave FileLines, which are sent.
TailerLines(u) ==
    /\ main_pc # "exited"
    /\ Active(u)
    /\ tailer[u].pc = "recv"
    /\ lines_sent[u] < MaxLines
    /\ chan[u] < LinesCap
    /\ chan' = [chan EXCEPT ![u] = @ + 1]
    /\ lines_sent' = [lines_sent EXCEPT ![u] = @ + 1]
    /\ unit' = [unit EXCEPT ![u] = AfterPoll(u)]
    /\ UNCHANGED <<MAIL_DB, boot_pc, main_pc, main_ret, joined, tailer,
                   consumer, deferred, now, delay>>

\* FileTail::tail: an event gave a FileReading error; retry starts.
TailerReadFails(u) ==
    /\ main_pc # "exited"
    /\ Active(u)
    /\ tailer[u].pc = "recv"
    /\ tailer' = [tailer EXCEPT ![u].pc = "retry", ![u].i = 0]
    /\ unit' = [unit EXCEPT ![u] = AfterPoll(u)]
    /\ UNCHANGED <<MAIL_DB, boot_pc, main_pc, main_ret, joined, lines_sent,
                   chan, consumer, deferred, now, delay>>

\* FileTail::retry, one attempt after its sleep; when the last one fails
\* tail returns the error and so does the unit.
TailerRetry(u) ==
    /\ main_pc # "exited"
    /\ Active(u)
    /\ tailer[u].pc = "retry"
    /\ \E exists \in BOOLEAN :
          LET r == reset([pos |-> 0, watch_inc |-> 1],
                         [exists |-> exists, inc |-> 1, len |-> 0])
              to == retry_result(tailer[u].i, r.ok)
          IN  IF to = "retries exhausted"
              THEN /\ tailer' = [tailer EXCEPT ![u].pc = to,
                                   ![u].i = @ + 1,
                                   ![u].ret = tail_result(to)]
                   /\ unit' = [unit EXCEPT ![u] =
                                 unit_result(tail_result(to))]
              ELSE /\ tailer' = [tailer EXCEPT ![u].pc = to,
                                   ![u].i = IF r.ok THEN 0 ELSE @ + 1]
                   /\ unit' = [unit EXCEPT ![u] = AfterPoll(u)]
    /\ UNCHANGED <<MAIL_DB, boot_pc, main_pc, main_ret, joined, lines_sent,
                   chan, consumer, deferred, now, delay>>

\* FileTail::tail: the watcher's thread has ended and with it the sender
\* of rx_fs_events; recv gives None, tail leaves its loop.
TailerChannelClosed(u) ==
    /\ main_pc # "exited"
    /\ Active(u)
    /\ tailer[u].pc = "recv"
    /\ tailer' = [tailer EXCEPT ![u].pc = "channel closed",
                    ![u].ret = tail_result("channel closed")]
    /\ unit' = [unit EXCEPT ![u] =
                  unit_result(tail_result("channel closed"))]
    /\ UNCHANGED <<MAIL_DB, boot_pc, main_pc, main_ret, joined, lines_sent,
                   chan, consumer, deferred, now, delay>>

\* A task asked to abort while it waited is dropped.
UnitAborted(u) ==
    /\ main_pc # "exited"
    /\ unit[u] = "aborting"
    /\ unit' = [unit EXCEPT ![u] = "aborted"]
    /\ UNCHANGED <<MAIL_DB, boot_pc, main_pc, main_ret, joined, tailer,
                   lines_sent, chan, consumer, deferred, now, delay>>

\* tail_mail_log's consumer: FileLines are received, parsed and inserted.
ConsumeLog ==
    /\ main_pc # "exited"
    /\ consumer["tail_mail_log"] = "running"
    /\ chan["tail_mail_log"] > 0
    /\ chan' = [chan EXCEPT !["tail_mail_log"] = @ - 1]
    /\ MAIL_DB' = insert_mails(MAIL_DB, LogBatch).db
    /\ UNCHANGED <<boot_pc, main_pc, main_ret, unit, joined, tailer,
                   lines_sent, consumer, deferred, now, delay>>

\* tail_mail's consumer: FileLines are received and parsed, and a task is
\* spawned that sleeps before it updates.
ConsumeMail ==
    /\ main_pc # "exited"
    /\ consumer["tail_mail"] = "running"
    /\ chan["tail_mail"] > 0
    /\ chan' = [chan EXCEPT !["tail_mail"] = @ - 1]
    /\ deferred' = Append(deferred, [parsed |-> now, st |-> "asleep"])
    /\ UNCHANGED <<MAIL_DB, boot_pc, main_pc, main_ret, unit, joined, tailer,
                   lines_sent, consumer, now, delay>>

\* A consumer: the FileTail is gone and the channel is empty; recv gives
\* None and the task ends.
ConsumerEnds(u) ==
    /\ main_pc # "exited"
    /\ consumer[u] = "running"
    /\ chan[u] = 0
    /\ ~ Active(u)
    /\ consumer' = [consumer EXCEPT ![u] = "ended"]
    /\ UNCHANGED <<MAIL_DB, boot_pc, main_pc, main_ret, unit, joined, tailer,
                   lines_sent, chan, deferred, now, delay>>

\* A deferred task: its sleep is over, it updates the subjects.
DeferredUpdate(k) ==
    /\ main_pc # "exited"
    /\ deferred[k].st = "asleep"
    /\ now >= wakes_at(deferred[k].parsed, delay)
    /\ deferred' = [deferred EXCEPT ![k].st = "applied"]
    /\ MAIL_DB' = update_mail_subjects(MAIL_DB, SubjectBatch).db
    /\ UNCHANGED <<boot_pc, main_pc, main_ret, unit, joined, tailer,
                   lines_sent, chan, consumer, now, delay>>

\* Time passes.
Tick ==
    /\ main_pc # "exited"
    /\ now < MaxTime
    /\ now' = now + 1
    /\ UNCHANGED <<MAIL_DB, boot_pc, main_pc, main_ret, unit, joined, tailer,
                   lines_sent, chan, consumer, deferred, delay>>

\* main, select!: join_next gives the result of a finished task.
JoinNext(u) ==
    /\ main_pc = "select"
    /\ unit[u] \in {"Ok", "Err"}
    /\ u \notin joined
    /\ joined' = joined \cup {u}
    /\ LET to == join_result(unit[u], joined \cup {u} = Units)
       IN  /\ main_pc' = to
           /\ main_ret' = IF to = "select" THEN "none"
                          ELSE IF unit[u] = "Err" THEN u ELSE "Ok"
           /\ unit' = IF to = "returned" THEN AbortAll(unit) ELSE unit
    /\ UNCHANGED <<MAIL_DB, boot_pc, tailer, lines_sent, chan, consumer,
                   deferred, now, delay>>

\* main, select!: ctrl_c; tasks.shutdown() asks every task to abort ...
CtrlC ==
    /\ main_pc = "select"
    /\ main_pc' = "shutdown"
    /\ unit' = AbortAll(unit)
    /\ UNCHANGED <<MAIL_DB, boot_pc, main_ret, joined, tailer, lines_sent,
                   chan, consumer, deferred, now, delay>>

\* ... and is over when every task of the set is gone; main returns Ok.
ShutdownDone ==
    /\ main_pc = "shutdown"
    /\ \A u \in Units : ~ Active(u)
    /\ main_pc' = "returned"
    /\ main_ret' = "Ok"
    /\ UNCHANGED <<MAIL_DB, boot_pc, unit, joined, tailer, lines_sent, chan,
                   consumer, deferred, now, delay>>

\* After main has returned the runtime is dropped, every task with it, and
\* the process ends.
ExitLeavesTasks ==
    /\ main_pc = "returned"
    /\ main_pc' = "exited"
    /\ UNCHANGED <<MAIL_DB, boot_pc, main_ret, unit, joined, tailer,
                   lines_sent, chan, consumer, deferred, now, delay>>

Exit ==
    /\ main_pc = "returned"
    /\ main_pc' = "exited"
    /\ unit' = [u \in Units |-> IF Active(u) THEN "aborted" ELSE unit[u]]
    /\ consumer' = [u \in Tailers |->
                      IF consumer[u] = "running" THEN "dropped"
                      ELSE consumer[u]]
    /\ deferred' = [k \in DOMAIN deferred |->
                      IF deferred[k].st = "asleep"
                      THEN [deferred[k] EXCEPT !.st = "abandoned"]
                      ELSE deferred[k]]
    /\ UNCHANGED <<MAIL_DB, boot_pc, main_ret, joined, tailer, lines_sent,
                   chan, now, delay>>

\* The tasks of the JoinSet as far as their ends go: no FileLines are
\* sent, no time passes.
NextMain ==
    /\ \/ HttpEnds
       \/ InitMailFile
       \/ \E u \in Tailers : TailerNew(u)
       \/ \E u \in Tailers : TailerReadFails(u)
       \/ \E u \in Tailers : TailerRetry(u)
       \/ \E u \in Tailers : TailerChannelClosed(u)
       \/ \E u \in Units : UnitAborted(u)
       \/ \E u \in Tailers : ConsumerEnds(u)
       \/ \E u \in Units : JoinNext(u)
       \/ CtrlC
       \/ ShutdownDone
       \/ Exit
    /\ UNCHANGED <<call, contentVars, logVars, tailVars, response, missed,
                   delivered, live, batches>>

\* The two pipelines from the tailer units to the table, the interrupt and
\* the time: the tailers read without failure, start_http serves.
NextPipe ==
    /\ \/ InitMailFile
       \/ \E u \in Tailers : TailerNew(u)
       \/ \E u \in Tailers : TailerLines(u)
       \/ \E u \in Units : UnitAborted(u)
       \/ ConsumeLog
       \/ ConsumeMail
       \/ \E u \in Tailers : ConsumerEnds(u)
       \/ \E k \in DOMAIN deferred : DeferredUpdate(k)
       \/ Tick
       \/ \E u \in Units : JoinNext(u)
       \/ CtrlC
       \/ ShutdownDone
       \/ Exit
    /\ UNCHANGED <<call, contentVars, logVars, tailVars, response, missed,
                   delivered, live, batches>>

(***************************************************************************)
(* find_mail, the handler of GET /mail.  The keys and subjects of the      *)
(* table are names; Chars gives the characters a name stands for.  "SIGMA" *)
(* is the capital Greek letter sigma, "sigma" its small form and           *)
(* "final_sigma" the small form written at the end of a word.              *)
(***************************************************************************)
Chars(name) ==
    CASE name = "a@x" -> <<"a", "@", "x">>
      [] name = "b@x" -> <<"b", "@", "x">>
      [] name = "s1"  -> <<"H", "i">>
      [] name = "s2"  -> <<"O", "SIGMA">>

\* The letters that have a case.
Cased(c) ==
    c \in {"A", "a", "b", "H", "h", "I", "i", "O", "o", "x",
           "SIGMA", "sigma", "final_sigma"}

\* char::to_lowercase
LowerChar(c) ==
    CASE c = "A" -> "a"
      [] c = "H" -> "h"
      [] c = "I" -> "i"
      [] c = "O" -> "o"
      [] c = "SIGMA" -> "sigma"
      [] OTHER -> c

\* str::to_lowercase: every character by char::to_lowercase, but a capital
\* sigma that ends a word (a cased letter before it, none after it) becomes
\* the final small sigma.
to_lowercase(s) ==
    [i \in 1..Len(s) |->
        IF /\ s[i] = "SIGMA"
           /\ i > 1
           /\ Cased(s[i - 1])
           /\ ~ (i < Len(s) /\ Cased(s[i + 1]))
        THEN "final_sigma"
        ELSE LowerChar(s[i])]

\* Option<String>, the subject_filter of the query.
NoFilter == [is_some |-> FALSE, v |-> <<>>]

SomeFilter(f) == [is_some |-> TRUE, v |-> f]

\* FindMailQuery
Query(email_address_filter, subject_filter) ==
    [email_address_filter |-> email_address_filter,
     subject_filter |-> subject_filter]

\* The queries made: the address filters match one recipient, or none (by
\* case); the subject filters are absent, the subject of s1 in another
\* case, and the last letter of s2.
AddressFilters == { <<"a">>, <<"A", "@">> }

SubjectFilters ==
    { NoFilter, SomeFilter(<<"h", "I">>), SomeFilter(<<"SIGMA">>) }

\* Option<String>::cmp on Mail.line: None is less than Some, and the raw
\* lines compare as strings.
LineRank(line) ==
    CASE line = None -> 0
      [] line = "line1" -> 1
      [] line = "line2" -> 2
      [] line = "line3" -> 3
      [] line = "line4" -> 4

\* v.sort_by(|a, b| a.line.cmp(&b.line)): a stable sort.
RECURSIVE SortByLine(_)
SortByLine(v) ==
    IF v = <<>> THEN <<>>
    ELSE LET front == SortByLine(SubSeq(v, 1, Len(v) - 1))
             m     == v[Len(v)]
             Le(x) == LineRank(x.line) <= LineRank(m.line)
             Gt(x) == LineRank(x.line) > LineRank(m.line)
         IN  SelectSeq(front, Le) \o <<m>> \o SelectSeq(front, Gt)

AddressEquals(k, filter) == Chars(k) = filter

\* k.contains(&query.email_address_filter)
AddressMatches(k, filter) == Contains(Chars(k), filter)

\* The closure given to v.retain.
SubjectMatches(mail, filter) ==
    IF mail.subject = None THEN FALSE
    ELSE Contains(to_lowercase(Chars(mail.subject)), to_lowercase(filter))

\* find_mail: the response to query q when the table is db.
find_mail(db, q) ==
    LET subject_filter == q.subject_filter.v
        Retain(mail) == SubjectMatches(mail, subject_filter)
        filtered(k) ==
            IF q.subject_filter.is_some THEN SelectSeq(db[k], Retain)
            ELSE db[k]
        kept == { k \in DOMAIN db :
                    /\ AddressMatches(k, q.email_address_filter)
                    /\ filtered(k) # <<>> }
        mail_db_results == [k \in kept |-> SortByLine(filtered(k))]
    IN  IF kept = {}
        THEN [status |-> "NOT_FOUND", query |-> q, results |-> None,
              error |-> <<q.email_address_filter, subject_filter>>]
        ELSE [status |-> "OK", query |-> q, results |-> mail_db_results,
              error |-> None]

\* No request is being handled.
NoResponse == [status |-> "none"]

\* A request arrives and find_mail builds its response, under the lock of
\* the table.
FindMail ==
    /\ response = NoResponse
    /\ \E af \in AddressFilters, sf \in SubjectFilters :
          response' = find_mail(MAIL_DB, Query(af, sf))
    /\ UNCHANGED <<dbVars, contentVars, logVars, tailVars>>

\* find_mail returns: the lock is released and the response is sent.
Respond ==
    /\ response # NoResponse
    /\ response' = NoResponse
    /\ UNCHANGED <<dbVars, contentVars, logVars, tailVars>>

\* The table, its callers and the queries.  find_mail holds the lock of
\* the table from its first statement to its last, so no call is applied
\* while a request is in hand; what the callers do outside their calls
\* does not touch the table and is left until the response is sent.
NextQuery ==
    \/ /\ NextDB
       /\ response = NoResponse
       /\ UNCHANGED response
    \/ FindMail
    \/ Respond

(***************************************************************************)
(* tail_mail, the mail file in batches.  The mail server appends lines to  *)
(* the file; at a Modify event FileTail::read makes a FileLines at pos and *)
(* moves pos to the length of the file; the consumer takes the FileLines   *)
(* in the order sent and calls parse_mail_subjects with each, which reads  *)
(* it to the end the file has by then.  Offsets are counted in lines: the  *)
(* mail server writes whole lines.  The deferred task that applies a batch *)
(* to the table is in NextPipe.                                            *)
(***************************************************************************)
MaxTailLines == 3  \* lines appended to the tailed mail file

\* Lines appended to the tailed mail file.
TailLines ==
    { <<"ESMTPS", " ", "id", " ", "IDY">>,
      <<"To:", " ", "c@d.com">>,
      <<"Subject:", " ", "hi">>,
      <<"body", " ", "text">> }

\* FileTail::new on the empty file, the consumer spawned and waiting.
TailStart == [pos |-> 0, open |-> << >>, out |-> << >>]

InitBatches == batches = TailStart

\* No mail file is tailed.
NoBatches == batches = TailStart

\* The FileLines made so far.
BatchesRead == Len(batches.open) + Len(batches.out)

\* The mail server appends a line.
MailAppend ==
    /\ Len(mail_file) < MaxTailLines
    /\ \E l \in TailLines : mail_file' = Append(mail_file, l)
    /\ UNCHANGED <<batches, mails_with_subjects, mc_pc, dbVars, logVars,
                   tailVars, live>>

\* FileTail::tail takes a Modify event, of which there is at most one per
\* append: read() makes a FileLines at pos, moves pos to the length of the
\* file, and the FileLines is sent.
TailReadBatch ==
    /\ BatchesRead < Len(mail_file)
    /\ batches' = [batches EXCEPT !.open = Append(@, batches.pos),
                                  !.pos = Len(mail_file)]
    /\ UNCHANGED <<contentVars, dbVars, logVars, tailVars, live>>

\* The lines a FileLines made at offset `from` gives when read now.
LinesFrom(from) == SubSeq(mail_file, from + 1, Len(mail_file))

\* The consumer with the locals of the last call of parse_mail_subjects
\* kept for the next one.
ConsumeBatchCarries ==
    /\ batches.open # << >>
    /\ LET from == Head(batches.open)
           before == IF batches.out = << >> THEN << >>
                     ELSE SubSeq(mail_file,
                                 batches.out[Len(batches.out)].from + 1,
                                 batches.out[Len(batches.out)].to)
           kept == [ParseSubjectLoop(ParserStart, before)
                      EXCEPT !.mails = << >>]
       IN  batches' = [batches EXCEPT
               !.open = Tail(@),
               !.out = Append(@, [from |-> from, to |-> Len(mail_file),
                                  mails |-> ParseSubjectLoop(
                                               kept, LinesFrom(from)).mails])]
    /\ UNCHANGED <<contentVars, dbVars, logVars, tailVars, live>>

\* The consumer: rx_lines.recv() gives the next FileLines and
\* parse_mail_subjects(reader) is called with it.
ConsumeBatch ==
    /\ batches.open # << >>
    /\ LET from == Head(batches.open)
       IN  batches' = [batches EXCEPT
               !.open = Tail(@),
               !.out = Append(@, [from |-> from, to |-> Len(mail_file),
                                  mails |-> parse_mail_subjects(
                                               LinesFrom(from))])]
    /\ UNCHANGED <<contentVars, dbVars, logVars, tailVars, live>>

NextBatches ==
    \/ MailAppend
    \/ TailReadBatch
    \/ ConsumeBatch

(***************************************************************************)
(* Startup on a live file.  main spawns init_mail and the tailers on the   *)
(* JoinSet and awaits none of them before the next: the runtime polls them *)
(* in any order.  init_mail reads each configured file from its start to   *)
(* the end it has at that time; FileTail::new takes the length the tailed  *)
(* file has at its own time as pos, and FileTail::read hands on what lies  *)
(* between pos and the end.  The mail server appends to the file all the   *)
(* while.                                                                  *)
(***************************************************************************)
MaxLive == 4       \* bytes the live file comes to hold

\* Before any task is polled: the file holds len bytes, and `listed` says
\* whether the tailed file is one of the configured files of init_mail.
LiveStart(len, listed) ==
    [len |-> len, listed |-> listed,
     boot |-> "todo", boot_to |-> 0,
     tail |-> "todo", start |-> 0, read_to |-> 0]

InitLive == \E len \in 0..MaxLive, listed \in BOOLEAN :
               live = LiveStart(len, listed)

\* No live file.
NoLive == live = LiveStart(0, FALSE)

\* The mail server appends a byte.
LiveAppend ==
    /\ live.len < MaxLive
    /\ live' = [live EXCEPT !.len = @ + 1]
    /\ UNCHANGED <<batches, contentVars, dbVars, logVars, tailVars>>

\* init_mail comes to the file in the loop over the configured files:
\* FileLines::new opens it at its start and the parser reads it to its end.
\* A file that is not configured is not read.
BootLoad ==
    /\ live.boot = "todo"
    /\ live' = [live EXCEPT !.boot = "done",
                            !.boot_to = IF live.listed THEN live.len ELSE 0]
    /\ UNCHANGED <<batches, contentVars, dbVars, logVars, tailVars>>

\* FileTail::new: pos is the length of the file.
LiveTailNew ==
    /\ live.tail = "todo"
    /\ live' = [live EXCEPT !.tail = "tailing", !.start = live.len,
                            !.read_to = live.len]
    /\ UNCHANGED <<batches, contentVars, dbVars, logVars, tailVars>>

\* FileTail::read at a Modify event, and the consumer reading the
\* FileLines: the bytes from pos to the end of the file.
LiveTailRead ==
    /\ live.tail = "tailing"
    /\ live.read_to < live.len
    /\ live' = [live EXCEPT !.read_to = live.len]
    /\ UNCHANGED <<batches, contentVars, dbVars, logVars, tailVars>>

NextLive ==
    \/ LiveAppend
    \/ BootLoad
    \/ LiveTailNew
    \/ LiveTailRead

(***************************************************************************)
(* The histories: not there in the specifications that follow.             *)
(***************************************************************************)

NoHistory ==
    /\ response = NoResponse
    /\ missed = {}
    /\ delivered = << >>
    /\ NoLive
    /\ NoBatches

restVars == <<mainVars, response, missed, delivered, live, batches>>

\* main with its tasks.
InitOfMain == InitDB /\ NoContent /\ NoLog /\ NoTail /\ InitMain /\ NoHistory

SpecMain == InitOfMain /\ [][NextMain]_vars

SpecPipe == InitOfMain /\ [][NextPipe]_vars

\* A FileTail runs; nothing is parsed, the table is not called.
InitOfTail ==
    InitDB /\ NoContent /\ NoLog /\ InitTail /\ NoMain /\ NoHistory

NextOfTail == NextTail /\ UNCHANGED restVars

SpecTail == InitOfTail /\ [][NextOfTail]_vars

\* parse_mails is given a delivery log.
InitOfLog == InitDB /\ NoContent /\ InitLog /\ NoTail /\ NoMain /\ NoHistory

NextOfLog == NextLog /\ UNCHANGED restVars

SpecLog == InitOfLog /\ [][NextOfLog]_vars

\* parse_mail_subjects is given a mail file.
InitOfContent ==
    InitDB /\ InitContent /\ NoLog /\ NoTail /\ NoMain /\ NoHistory

NextOfContent == NextContent /\ UNCHANGED restVars

SpecContent == InitOfContent /\ [][NextOfContent]_vars

\* The table and its callers.
InitOfDB == InitDB /\ NoContent /\ NoLog /\ NoTail /\ NoMain /\ NoHistory

NextOfDB == NextDB /\ UNCHANGED restVars

SpecDB == InitOfDB /\ [][NextOfDB]_vars

\* A FileTail runs, with the history of the bytes read by the consumer.
InitOfBytes ==
    /\ InitDB /\ NoContent /\ NoLog /\ InitTail /\ NoMain
    /\ response = NoResponse
    /\ missed = {}
    /\ InitDelivered
    /\ NoLive
    /\ NoBatches

NextOfBytes ==
    NextBytes /\ UNCHANGED <<mainVars, response, missed, live, batches>>

SpecBytes == InitOfBytes /\ [][NextOfBytes]_vars

\* The mail file is tailed and parsed in batches.
InitOfBatches ==
    /\ InitDB /\ NoContent /\ NoLog /\ NoTail /\ NoMain
    /\ response = NoResponse
    /\ missed = {}
    /\ delivered = << >>
    /\ NoLive
    /\ InitBatches

NextOfBatches ==
    NextBatches /\ UNCHANGED <<mainVars, response, missed, delivered>>

SpecBatches == InitOfBatches /\ [][NextOfBatches]_vars

\* init_mail and a tailer start on a live file.
InitOfLive ==
    /\ InitDB /\ NoContent /\ NoLog /\ NoTail /\ NoMain
    /\ response = NoResponse
    /\ missed = {}
    /\ delivered = << >>
    /\ InitLive
    /\ NoBatches

NextOfLive ==
    NextLive /\ UNCHANGED <<mainVars, response, missed, delivered>>

SpecLive == InitOfLive /\ [][NextOfLive]_vars

\* The (to, id) pairs of a batch.
Pairs(mails) == { <<mails[i].to, mails[i].id>> : i \in 1..Len(mails) }

\* The (to, id) pairs of a batch for which db holds no record.
Misses(db, mails) ==
    { pr \in Pairs(mails) :
        \A k \in 1..Len(Bucket(db, pr[1])) : Bucket(db, pr[1])[k].id # pr[2] }

\* The table and its callers, with the history of the updates that missed:
\* `missed` holds the pairs that update_mail_subjects was called with while
\* no record was stored for them, and has not been called with since they
\* are stored.
NextOfMiss ==
    /\ NextDB
    /\ missed' = IF call.phase = "pending" /\ call.op = "update"
                 THEN (missed \ Pairs(call.arg))
                         \cup Misses(MAIL_DB, call.arg)
                 ELSE missed
    /\ UNCHANGED <<mainVars, response, delivered, live, batches>>

SpecMiss == InitOfDB /\ [][NextOfMiss]_vars

\* The table, its callers and find_mail.
NextOfQuery ==
    NextQuery /\ UNCHANGED <<mainVars, missed, delivered, live, batches>>

SpecQuery == InitOfDB /\ [][NextOfQuery]_vars

(***************************************************************************)
(* Claims about the table.                                                 *)
(***************************************************************************)
\* The number of records stored in the whole table.
RECURSIVE SumLen(_, _)
SumLen(db, tos) ==
    IF tos = {} THEN 0
    ELSE LET to == CHOOSE t \in tos : TRUE
         IN  Len(db[to]) + SumLen(db, tos \ {to})

Stored(db) == SumLen(db, DOMAIN db)

\* The number of records of bucket `to` with the given id.
CountId(db, to, id) ==
    Cardinality({ k \in 1..Len(Bucket(db, to)) : Bucket(db, to)[k].id = id })

\* b1 is an initial part of b2.
IsPrefix(b1, b2) == Len(b1) <= Len(b2) /\ SubSeq(b2, 1, Len(b1)) = b1

\* The positions of a batch whose (to, id) pair is neither stored in db nor
\* at an earlier position of the batch.
FreshPositions(db, mails) ==
    { i \in 1..Len(mails) :
        /\ CountId(db, mails[i].to, mails[i].id) = 0
        /\ \A j \in 1..(i - 1) :
              ~ (mails[j].to = mails[i].to /\ mails[j].id = mails[i].id) }

\* The step is a call of `op` with batch call.arg: the table before it is
\* MAIL_DB, after it MAIL_DB', and the count returned call'.ret.
Called(op) ==
    call.phase = "pending" /\ call'.phase = "returned" /\ call.op = op

\* C1: in every reachable state of the table, no bucket holds two records
\* with the same id, whatever calls the bootstrap pass, the delivery-log
\* consumer and the deferred subject updates have made.
C1_NoDuplicateIds ==
    \A to \in DOMAIN MAIL_DB :
        \A i, j \in 1..Len(MAIL_DB[to]) :
            MAIL_DB[to][i].id = MAIL_DB[to][j].id => i = j

\* C1's case: an insert met an id its bucket already held (it appended
\* fewer records than it was given) and the bucket holds two records.
C1_Witness ==
    /\ call.phase = "returned"
    /\ call.op = "insert"
    /\ call.ret < Len(call.arg)
    /\ \E to \in DOMAIN MAIL_DB : Len(MAIL_DB[to]) = 2

\* C2: insert_mails returns exactly the number of records it appended; a
\* (to, id) pair already stored, or already seen in the batch, appends
\* nothing and counts 0; the records stored before stay as they were
\* (subject and raw line included); every pair of the batch is stored
\* exactly once afterwards.
C2_InsertCountsAppended ==
    [][ Called("insert") =>
          /\ call'.ret = Stored(MAIL_DB') - Stored(MAIL_DB)
          /\ call'.ret = Cardinality(FreshPositions(MAIL_DB, call.arg))
          /\ \A to \in DOMAIN MAIL_DB :
                /\ to \in DOMAIN MAIL_DB'
                /\ IsPrefix(MAIL_DB[to], MAIL_DB'[to])
          /\ \A to \in DOMAIN MAIL_DB' :
                \A k \in (Len(Bucket(MAIL_DB, to)) + 1)..Len(MAIL_DB'[to]) :
                    \E i \in FreshPositions(MAIL_DB, call.arg) :
                        MAIL_DB'[to][k] = call.arg[i]
          /\ \A i \in 1..Len(call.arg) :
                CountId(MAIL_DB', call.arg[i].to, call.arg[i].id) = 1
      ]_vars

\* C2's case: one batch held the same (to, id) pair twice, with different
\* raw lines, and one record was appended for it: the first.
C2_Witness ==
    /\ call.phase = "returned"
    /\ call.op = "insert"
    /\ Len(call.arg) = 2
    /\ call.arg[1].to = call.arg[2].to
    /\ call.arg[1].id = call.arg[2].id
    /\ call.arg[1].line # call.arg[2].line
    /\ call.ret = 1
    /\ MAIL_DB[call.arg[1].to] = <<call.arg[1]>>

\* No record stored for new_mail's (to, id) pair is without a subject.
Settled(db, new_mail) ==
    \A k \in 1..Len(Bucket(db, new_mail.to)) :
        Bucket(db, new_mail.to)[k].id = new_mail.id
            => Bucket(db, new_mail.to)[k].subject # None

\* C3: update_mail_subjects changes a stored record only if the record has
\* the incoming id and no subject yet, and then only its subject; once it
\* has been called with a subject-bearing record, calling it again with
\* that record, with updates but no insert in between, returns 0 and leaves
\* the table as it is.
C3_UpdateOnlyUnsetOnce ==
    [][ Called("update") =>
          /\ DOMAIN MAIL_DB' = DOMAIN MAIL_DB
          /\ \A to \in DOMAIN MAIL_DB :
                /\ Len(MAIL_DB'[to]) = Len(MAIL_DB[to])
                /\ \A k \in 1..Len(MAIL_DB[to]) :
                      MAIL_DB'[to][k] # MAIL_DB[to][k] =>
                          /\ MAIL_DB[to][k].subject = None
                          /\ \E i \in 1..Len(call.arg) :
                                /\ call.arg[i].to = to
                                /\ call.arg[i].id = MAIL_DB[to][k].id
                                /\ MAIL_DB'[to][k] =
                                      [MAIL_DB[to][k] EXCEPT
                                          !.subject = call.arg[i].subject]
          \* every record of the batch is settled by the call ...
          /\ \A i \in 1..Len(call.arg) : Settled(MAIL_DB', call.arg[i])
          \* ... an update leaves a settled record settled ...
          /\ \A m \in SubjectMails :
                Settled(MAIL_DB, m) => Settled(MAIL_DB', m)
          \* ... and a batch of settled records changes nothing.
          /\ (\A i \in 1..Len(call.arg) : Settled(MAIL_DB, call.arg[i]))
                => call'.ret = 0 /\ MAIL_DB' = MAIL_DB
      ]_vars

\* C3's case: an update with one record returned 0 although the record's
\* pair is stored, because the stored record has a subject already, and
\* not the incoming one.
C3_Witness ==
    /\ call.phase = "returned"
    /\ call.op = "update"
    /\ Len(call.arg) = 1
    /\ call.ret = 0
    /\ \E k \in 1..Len(Bucket(MAIL_DB, call.arg[1].to)) :
          /\ MAIL_DB[call.arg[1].to][k].id = call.arg[1].id
          /\ MAIL_DB[call.arg[1].to][k].subject \notin {None, call.arg[1].subject}

\* C4: update_mail_subjects with a record whose recipient has no bucket
\* counts 0 for that record and creates no bucket; a batch of such records
\* returns 0 and leaves the table as it is.
C4_UpdateWithoutBucket ==
    [][ Called("update") =>
          /\ DOMAIN MAIL_DB' = DOMAIN MAIL_DB
          /\ call'.ret <= Cardinality({ i \in 1..Len(call.arg) :
                                          HasBucket(MAIL_DB, call.arg[i].to) })
          /\ (\A i \in 1..Len(call.arg) : ~ HasBucket(MAIL_DB, call.arg[i].to))
                => call'.ret = 0 /\ MAIL_DB' = MAIL_DB
      ]_vars

\* C4's case: the table holds a bucket, and an update whose record is for
\* another recipient, one with no bucket, returned 0.
C4_Witness ==
    /\ call.phase = "returned"
    /\ call.op = "update"
    /\ call.arg # <<>>
    /\ \A i \in 1..Len(call.arg) : ~ HasBucket(MAIL_DB, call.arg[i].to)
    /\ call.ret = 0
    /\ DOMAIN MAIL_DB # {}

(***************************************************************************)
(* Claims about parse_mail_subjects.                                       *)
(***************************************************************************)
\* The least number of a set of positions, 0 for the empty set.
First(S) == IF S = {} THEN 0 ELSE CHOOSE i \in S : \A j \in S : i <= j

Later(a, b) == IF a >= b THEN a ELSE b

IsMarker(line) == Contains(line, ESMTPS_ID)

\* The id a marker line names: its last word.
MarkerId(line) == LastToken(line)

\* What a "To: " line gives for `to` (nothing for any other line): the
\* line without "To: " and without angle brackets.
ToValue(line) ==
    IF StartsWith(line, TO_PREFIX)
    THEN RemoveChars(Remove(line, TO_PREFIX), {"<", ">"})
    ELSE <<>>

\* What a "Subject: " line gives for `subject` (nothing for any other line).
SubjectValue(line) ==
    IF StartsWith(line, SUBJECT_PREFIX) THEN Remove(line, SUBJECT_PREFIX)
    ELSE <<>>

\* The file has exactly two marker lines, i and j, for different ids, and
\* the capture that starts at i is unfinished when j arrives.
SecondMarkerWhileCapturing(file, i, j) ==
    /\ i < j
    /\ \A k \in 1..Len(file) : IsMarker(file[k]) <=> k \in {i, j}
    /\ MarkerId(file[i]) # MarkerId(file[j])
    /\ ~ \E t, u \in i..(j - 1) :
            ToValue(file[t]) # <<>> /\ SubjectValue(file[u]) # <<>>

\* C5, as claimed: a marker line that arrives while Capturing restarts the
\* capture: no record is emitted for the first id, and a To:/Subject: pair
\* that follows is emitted under the second id.
C5_AsClaimed ==
    mc_pc = "done" =>
        \A i, j \in 1..Len(mail_file) :
            SecondMarkerWhileCapturing(mail_file, i, j) =>
                /\ \A k \in 1..Len(mails_with_subjects) :
                      mails_with_subjects[k].id # MarkerId(mail_file[i])
                /\ (\E t, u \in j..Len(mail_file) :
                        /\ ToValue(mail_file[t]) # <<>>
                        /\ SubjectValue(mail_file[u]) # <<>>)
                      => \E k \in 1..Len(mails_with_subjects) :
                            mails_with_subjects[k].id = MarkerId(mail_file[j])

\* C5, amended: a marker line that arrives while Capturing is not taken as
\* a marker: the capture for the first id goes on, keeping what it has; no
\* record is emitted for the second id; the first To: and Subject: values
\* since the first marker, if both come, are emitted as one record under
\* the first id.
C5_SecondMarkerIgnored ==
    mc_pc = "done" =>
        \A i, j \in 1..Len(mail_file) :
            SecondMarkerWhileCapturing(mail_file, i, j) =>
                LET t == First({ x \in i..Len(mail_file) :
                                   ToValue(mail_file[x]) # <<>> })
                    u == First({ x \in i..Len(mail_file) :
                                   SubjectValue(mail_file[x]) # <<>> })
                IN  /\ \A k \in 1..Len(mails_with_subjects) :
                          mails_with_subjects[k].id # MarkerId(mail_file[j])
                    /\ mails_with_subjects =
                          IF t # 0 /\ u # 0
                          THEN << Mail(MarkerId(mail_file[i]), None,
                                       SubjectValue(mail_file[u]),
                                       ToValue(mail_file[t])) >>
                          ELSE << >>

\* C5's case: a second marker arrived before any To: or Subject: line, the
\* pair came after it, and the one record emitted has the first id.
C5_Witness ==
    /\ mc_pc = "done"
    /\ \E i, j \in 1..Len(mail_file) :
          /\ SecondMarkerWhileCapturing(mail_file, i, j)
          /\ \A x \in 1..j : ToValue(mail_file[x]) = <<>>
                             /\ SubjectValue(mail_file[x]) = <<>>
          /\ Len(mails_with_subjects) = 1
          /\ mails_with_subjects[1].id = MarkerId(mail_file[i])

\* The records of C6 as claimed, for the lines from `start` on, the parser
\* Idle at `start`: the next marker, the first "To: " line and the first
\* "Subject: " line from it on; a record, at the later of the two, when
\* both give a value.
RECURSIVE ClaimedRecords(_, _)
ClaimedRecords(file, start) ==
    LET m == First({ i \in start..Len(file) : IsMarker(file[i]) })
        t == First({ i \in m..Len(file) : StartsWith(file[i], TO_PREFIX) })
        u == First({ i \in m..Len(file) :
                       StartsWith(file[i], SUBJECT_PREFIX) })
    IN  IF m = 0 \/ t = 0 \/ u = 0 THEN << >>
        ELSE IF ToValue(file[t]) = <<>> \/ SubjectValue(file[u]) = <<>>
        THEN << >>
        ELSE << Mail(MarkerId(file[m]), None, SubjectValue(file[u]),
                     ToValue(file[t])) >>
             \o ClaimedRecords(file, Later(t, u) + 1)

\* The same with the first "To: " line that gives a value and the first
\* "Subject: " line that gives a value.
RECURSIVE ExpectedRecords(_, _)
ExpectedRecords(file, start) ==
    LET m == First({ i \in start..Len(file) : IsMarker(file[i]) })
        t == First({ i \in m..Len(file) : ToValue(file[i]) # <<>> })
        u == First({ i \in m..Len(file) : SubjectValue(file[i]) # <<>> })
    IN  IF m = 0 \/ t = 0 \/ u = 0 THEN << >>
        ELSE << Mail(MarkerId(file[m]), None, SubjectValue(file[u]),
                     ToValue(file[t])) >>
             \o ExpectedRecords(file, Later(t, u) + 1)

\* C6, as claimed: the record of a capture has `to` from the first "To: "
\* line and `subject` from the first "Subject: " line since the marker.
C6_AsClaimed ==
    mc_pc = "done" => mails_with_subjects = ClaimedRecords(mail_file, 1)

\* C6, amended: a marker accepted in Idle yields at most one record, at the
\* first line at which id, to and subject are all non-empty, with `to` from
\* the first "To: " line since the marker that leaves a non-empty value
\* (angle brackets stripped) and `subject` from the first "Subject: " line
\* since the marker with a non-empty rest; the parser is Idle again after
\* the record, and lines seen in Idle give no record and nothing to the
\* next capture.
C6_RecordsOfCaptures ==
    mc_pc = "done" => mails_with_subjects = ExpectedRecords(mail_file, 1)

\* C6's case: two captures gave a record each; in the first a "To: " line
\* with nothing in its brackets came before the line that gave `to`.
C6_Witness ==
    /\ mc_pc = "done"
    /\ Len(mails_with_subjects) = 2
    /\ \E m, t0, t, m2 \in 1..Len(mail_file) :
          /\ m < t0 /\ t0 < t /\ t < m2
          /\ \A k \in 1..Len(mail_file) : IsMarker(mail_file[k]) <=> k \in {m, m2}
          /\ StartsWith(mail_file[t0], TO_PREFIX)
          /\ ToValue(mail_file[t0]) = <<>>
          /\ ToValue(mail_file[t]) = mails_with_subjects[1].to
          /\ mails_with_subjects[2].id = MarkerId(mail_file[m2])

(***************************************************************************)
(* Claims about parse_mails.                                               *)
(***************************************************************************)
\* The position of the first '<' of a line and of the next '>' after it,
\* 0 when there is none.
FirstOpen(line) == First({ i \in 1..Len(line) : line[i] = "<" })

NextClose(line) ==
    IF FirstOpen(line) = 0 THEN 0
    ELSE First({ i \in (FirstOpen(line) + 1)..Len(line) : line[i] = ">" })

\* The text strictly between the first '<' and the next '>'.
Bracketed(line) == SubSeq(line, FirstOpen(line) + 1, NextClose(line) - 1)

\* A line for which C7 claims a record.
IsDeliveryLine(line) ==
    /\ Contains(line, POSTFIX_SMTP)
    /\ Len(Split(line, ":")) >= 4
    /\ StrLen(Trim(Split(line, ":")[4])) = 10
    /\ FirstOpen(line) # 0
    /\ NextClose(line) # 0
    /\ Contains(Bracketed(line), <<"@">>)

RECURSIVE ClaimedLogRecords(_)
ClaimedLogRecords(lines) ==
    IF lines = << >> THEN << >>
    ELSE (IF IsDeliveryLine(Head(lines))
          THEN << Mail(Trim(Split(Head(lines), ":")[4]), Head(lines), None,
                       Bracketed(Head(lines))) >>
          ELSE << >>)
         \o ClaimedLogRecords(Tail(lines))

\* C7: parse_mails emits, in file order, one record (subject none, raw_line
\* the line, recipient the bracketed text) for each line with the marker, a
\* fourth colon-delimited field of 10 characters and an '@' strictly
\* between the first '<' and the next '>', and nothing for any other line,
\* so nothing for a line where no '>' follows the first '<'.
C7_AsClaimed ==
    log_pc = "done" => log_mails = ClaimedLogRecords(log_file)


(***************************************************************************)
(* Claims about FileTail.                                                  *)
(***************************************************************************)
\* This step is FileTail::tail handling an event of kind k.
Handles(k) ==
    /\ tail_pc = "recv"
    /\ rx_fs_events # << >>
    /\ Head(rx_fs_events) = k
    /\ rx_fs_events' = Tail(rx_fs_events)

\* The FileLines sent and not yet received, oldest first, the one a blocked
\* send holds last.
Placed == tx_lines \o (IF hand # 0 THEN <<hand>> ELSE << >>)

\* C8: a create or remove event that is handled successfully (the file is
\* there to be watched and opened) leaves the watch on the current file,
\* makes exactly one FileLines, which reads the current file from offset 0,
\* sends it, and leaves pos at the file's length, whatever pos was before.
C8_ResetThenReadAll ==
    [][\A k \in {"create", "remove"} :
         (Handles(k) /\ fs_file.exists) =>
            /\ watch_inc' = fs_file.inc
            /\ pos' = fs_file.len
            /\ n_read' = n_read + 1
            /\ Placed' = Append(Placed, n_read + 1)
            /\ last'.lines = [inc |-> fs_file.inc, from |-> 0]
            /\ tail_pc' # "retry"]_vars

\* A create event was handled after a rotation with pos above 0: the watch
\* moved to the new file, which was read from 0 to its end.
C8_Witness ==
    /\ last.kind = "create"
    /\ last.pos > 0
    /\ last.lines = [inc |-> 2, from |-> 0]
    /\ watch_inc = 2
    /\ fs_file = [exists |-> TRUE, inc |-> 2, len |-> 1]
    /\ pos = 1
    /\ tx_lines # << >>

\* C9: handling an access event, an event of another kind, or an error
\* from the watcher changes neither pos nor the watch, sends nothing,
\* starts no retry and leaves the loop waiting for the next event.
C9_IgnoredEvents ==
    [][\A k \in {"access", "other", "error"} :
         Handles(k) =>
            /\ UNCHANGED <<pos, watch_inc, tx_lines, hand, n_read, retry_i>>
            /\ tail_pc' = "recv"]_vars

\* An error from the watcher was handled while appended bytes were unread:
\* they are still unread and the loop goes on to the event that waits.
C9_Witness ==
    /\ last.kind = "error"
    /\ last.lines = NoLines
    /\ tail_pc = "recv"
    /\ fs_file.exists
    /\ pos < fs_file.len
    /\ watch_inc = fs_file.inc
    /\ rx_fs_events # << >>

\* Every FileLines read so far has been received or is on its way, each
\* once, in the order of the reads; the channel holds at most LinesCap; a
\* send waits exactly while it holds a FileLines.
C10_InOrder ==
    /\ Len(tx_lines) <= LinesCap
    /\ Len(consumed \o Placed) = n_read
    /\ \A i \in 1..n_read : (consumed \o Placed)[i] = i
    /\ (tail_pc = "send") = (hand # 0)

\* A send starts to wait only when the channel is full; while it waits no
\* event is handled and pos stays; it ends only when the channel has room.
C10_Blocks ==
    /\ (tail_pc = "recv" /\ tail_pc' = "send") => Len(tx_lines') = LinesCap
    /\ tail_pc = "send" =>
          /\ Len(rx_fs_events') >= Len(rx_fs_events)
          /\ UNCHANGED <<pos, watch_inc, n_read, last>>
          /\ tail_pc' \in {"send", "recv"}
          /\ tail_pc' = "recv" =>
                Len(tx_lines) < LinesCap /\ tx_lines' = Append(tx_lines, hand)

\* C10: every FileLines a read makes is placed on the channel, which never
\* holds more than 5; when the channel is full the tailer waits, handling
\* no event, until the consumer takes one; nothing is dropped or
\* overwritten and the consumer receives in the order of the reads.
C10_Backpressure == [](C10_InOrder) /\ [][C10_Blocks]_vars

\* The sixth FileLines waits on the full channel while an event waits to
\* be handled.
C10_Witness ==
    /\ tail_pc = "send"
    /\ Len(tx_lines) = LinesCap
    /\ hand = LinesCap + 1
    /\ rx_fs_events # << >>

(***************************************************************************)
(* Claims about main and its tasks.                                        *)
(***************************************************************************)
\* This step is main taking the result of unit u from join_next.
Joins(u) == main_pc = "select" /\ u \notin joined /\ u \in joined'

\* The process has ended and nothing of it runs.
AllGone ==
    /\ \A u \in Units : ~ Active(u)
    /\ \A u \in Tailers : consumer[u] # "running"
    /\ \A k \in DOMAIN deferred : deferred[k].st # "asleep"

C11_State ==
    /\ main_pc = "exited" => AllGone
    /\ main_ret \in Units => unit[main_ret] = "Err"
    /\ main_pc = "select" => \A u \in joined : unit[u] = "Ok"
    /\ (main_ret = "Ok" /\ joined = Units) => \A u \in Units : unit[u] = "Ok"

C11_Step ==
    \A u \in Units :
       (Joins(u) /\ unit[u] = "Err") =>
          /\ main_pc' = "returned"
          /\ main_ret' = u
          /\ \A v \in Units : unit'[v] # "running"

\* C11: when main takes from join_next the result of a unit that ended
\* with an error (a tailer out of retries and a bootstrap that could not
\* open a file among them), main returns that error and every other unit
\* is dropped; once the process has ended no unit, consumer or deferred
\* task runs; main never goes on selecting past an error and never returns
\* "all tasks finished" when a unit ended with an error.
C11_ErrorStopsProcess == [](C11_State) /\ [][C11_Step]_vars

\* The bootstrap could not open a file: the process has ended with its
\* error, the other three units were running and are aborted.
C11_Witness ==
    /\ main_pc = "exited"
    /\ main_ret = "init_mail"
    /\ \A u \in Units \ {"init_mail"} : unit[u] = "aborted"
    /\ \A u \in Tailers : tailer[u].pc = "recv"

\* The tail loop of u ended because its retries were exhausted.
Exhausted(u) == tailer[u].pc = "retries exhausted"

\* C12 as claimed: a tailer out of retries is fatal for its pipeline only,
\* the process does not stop for it.
C12_AsClaimed ==
    \A u \in Tailers : Exhausted(u) => main_ret # u

C12_State ==
    \A u \in Tailers :
       /\ Exhausted(u) => (unit[u] = "Err" /\ tailer[u].i = Retries)
       /\ tailer[u].pc = "retry" => tailer[u].i < Retries
       /\ (main_pc = "exited" /\ main_ret = u) => AllGone

C12_Step ==
    \A u \in Tailers :
       /\ (tailer[u].pc = "retry" /\ tailer[u].i = Retries - 1
              /\ tailer'[u] # tailer[u] /\ tailer'[u].pc # "recv")
            => (Exhausted(u)' /\ unit'[u] = "Err")
       /\ (~ Exhausted(u) /\ Exhausted(u)')
            => (tailer[u].pc = "retry" /\ tailer[u].i = Retries - 1)
       /\ (Exhausted(u) /\ Joins(u))
            => /\ main_pc' = "returned"
               /\ main_ret' = u
               /\ \A v \in Units : unit'[v] # "running"

\* C12, amended: when all 5 retry attempts of a tailer fail (and only
\* then) its tail loop ends for good with an error, which the unit returns
\* and which is fatal for the whole process: main returns it as soon as it
\* joins the unit, the other tailer, the bootstrap and the endpoint are
\* dropped, and the process ends with nothing running.
C12_ExhaustedStopsAll == [](C12_State) /\ [][C12_Step]_vars

\* The delivery-log tailer ran out of retries; the process has ended with
\* its error; the other tailer and the endpoint were running, the
\* bootstrap had finished.
C12_Witness ==
    /\ main_pc = "exited"
    /\ main_ret = "tail_mail_log"
    /\ Exhausted("tail_mail_log")
    /\ tailer["tail_mail"].pc = "recv"
    /\ unit["tail_mail"] = "aborted"
    /\ unit["start_http"] = "aborted"
    /\ unit["init_mail"] = "Ok"

\* The tail loop of u has ended.
TailEnded(u) == tailer[u].pc \in {"retries exhausted", "channel closed"}

\* C13 as claimed: the tail loop ends only when the event channel closes,
\* and then with an outcome that is no failure of the unit.
C13_AsClaimed ==
    \A u \in Tailers :
       /\ TailEnded(u) => tailer[u].pc = "channel closed"
       /\ tailer[u].pc = "channel closed" => unit[u] # "Err"

C13_State ==
    \A u \in Tailers :
       /\ tailer[u].ret \in {"none", "Err"}
       /\ TailEnded(u) = (tailer[u].ret = "Err")
       /\ TailEnded(u) => unit[u] = "Err"
       /\ unit[u] # "Ok"

C13_Step ==
    \A u \in Tailers :
       (tailer[u].pc = "channel closed" /\ Joins(u)) =>
          (main_pc' = "returned" /\ main_ret' = u)

\* C13, amended: the tail loop ends when the event channel closes and when
\* the retries are exhausted, each time with an error and never with
\* another outcome; the unit returns the error, never Ok, and main treats
\* it as the failure of the unit: it returns it.
C13_TailEndsInError == [](C13_State) /\ [][C13_Step]_vars

\* The event channel of the mail tailer closed; the process has ended with
\* the error of that unit.
C13_Witness ==
    /\ main_pc = "exited"
    /\ main_ret = "tail_mail"
    /\ tailer["tail_mail"].pc = "channel closed"
    /\ tailer["tail_mail"].ret = "Err"

(***************************************************************************)
(* Claims about the interrupt and the deferred updates.                    *)
(***************************************************************************)
\* This step applies a call to the table: by the bootstrap, by the
\* consumer of the delivery log, or by a deferred task.
AppliesBootstrap == boot_pc' # boot_pc

AppliesInsert == chan'["tail_mail_log"] < chan["tail_mail_log"]

AppliesDeferred(k) ==
    /\ k \in DOMAIN deferred'
    /\ deferred[k].st = "asleep"
    /\ deferred'[k].st = "applied"

Applies ==
    \/ AppliesBootstrap
    \/ AppliesInsert
    \/ \E k \in DOMAIN deferred : AppliesDeferred(k)

\* The interrupt has been handled: tasks.shutdown() is over.
ShutdownOver == main_ret = "Ok" /\ main_pc \in {"returned", "exited"}

\* C14 as claimed: once the shutdown of the task set is over no call is
\* applied to the table any more.
C14_AsClaimed == [][ShutdownOver => ~ Applies]_vars

C14_State ==
    /\ ShutdownOver => \A u \in Units : ~ Active(u)
    /\ main_pc = "exited" => AllGone

C14_Step ==
    /\ (main_pc = "shutdown" /\ main_pc' # "shutdown") => ShutdownOver'
    /\ ShutdownOver => ~ AppliesBootstrap
    /\ main_pc = "exited" => (~ Applies /\ UNCHANGED MAIL_DB)

\* C14, amended: when the shutdown of the task set is over the four units
\* are gone and main returns Ok; the consumer and deferred tasks, which
\* are not in the set, are dropped only when the process ends, and until
\* then may still apply an insert or an update; once the process has ended
\* nothing is applied: a deferred task then asleep is abandoned, a
\* consumer is dropped with what waits in its channel.
C14_ShutdownThenExit == [](C14_State) /\ [][C14_Step]_vars

\* The process has ended with success after an interrupt; a deferred
\* update was abandoned asleep and the consumer of the delivery log was
\* dropped with FileLines waiting.
C14_Witness ==
    /\ main_pc = "exited"
    /\ main_ret = "Ok"
    /\ \E k \in DOMAIN deferred : deferred[k].st = "abandoned"
    /\ consumer["tail_mail_log"] = "dropped"
    /\ chan["tail_mail_log"] > 0

(***************************************************************************)
(* Claims about the retry loop of FileTail.                                *)
(***************************************************************************)
\* This step is a turn of FileTail::retry: the sleep is over and reset is
\* attempted.  Nothing else moves while the tailer is in retry but the
\* file, the watcher and the consumer.
Attempts ==
    /\ tail_pc = "retry"
    /\ UNCHANGED <<fs_file, rx_fs_events, tx_lines, consumed>>

C19_State ==
    /\ retry_i \in 0..Retries
    /\ tail_pc = "retry" => retry_i < Retries
    /\ tail_pc = "failed" <=> retry_i = Retries

C19_Step ==
    \* the failure starts the loop, and only the failure does
    /\ \A k \in {"create", "remove", "modify"} :
          (Handles(k) /\ ~ fs_file.exists) =>
              /\ tail_pc' = "retry"
              /\ retry_i' = 0
              /\ UNCHANGED <<tx_lines, watch_inc>>
    /\ (tail_pc # "retry" /\ tail_pc' = "retry") =>
          /\ ~ fs_file.exists
          /\ \E k \in {"create", "remove", "modify"} : Handles(k)
    \* a turn of the loop
    /\ Attempts =>
          IF fs_file.exists
          THEN /\ tail_pc' = "recv"
               /\ retry_i' = 0
               /\ pos' = 0
               /\ watch_inc' = fs_file.inc
          ELSE /\ retry_i' = retry_i + 1
               /\ tail_pc' = IF retry_i' = Retries THEN "failed" ELSE "retry"
               /\ watch_inc' = watch_inc
    \* no event is taken and nothing is sent during the loop
    /\ tail_pc = "retry" =>
          /\ Len(rx_fs_events') >= Len(rx_fs_events)
          /\ UNCHANGED <<hand, n_read>>
    \* tail ends with the error from the loop only, and stays ended
    /\ (tail_pc # "failed" /\ tail_pc' = "failed") =>
          Attempts /\ retry_i = Retries - 1 /\ ~ fs_file.exists
    /\ tail_pc = "failed" =>
          /\ UNCHANGED <<tail_pc, retry_i, pos, watch_inc, hand, n_read>>
          /\ Len(rx_fs_events') >= Len(rx_fs_events)

\* C19: a create, remove or modify event handled while the file cannot be
\* watched or opened puts FileTail into the retry loop, and nothing else
\* does; every turn of the loop, taken after its sleep, attempts one reset;
\* the first reset that succeeds ends the loop and tail goes back to
\* receiving events; a reset that fails counts, and tail ends with the
\* error exactly when the fifth has failed; no more than 5 are made.
C19_RetryLoop == [](C19_State) /\ [][C19_Step]_vars

\* All 5 attempts have failed and tail has ended with the error, with an
\* event left unreceived.
C19_Witness ==
    /\ tail_pc = "failed"
    /\ retry_i = Retries
    /\ ~ fs_file.exists
    /\ rx_fs_events # << >>

(***************************************************************************)
(* Claims about the offset of FileTail.                                    *)
(***************************************************************************)
\* The bytes of the file at the path that a consumer has read.
DeliveredBytes ==
    { o \in Offsets : o < fs_file.len /\ delivered.count[o] >= 1 }

\* Nothing is under way: the file is there and watched, it has not changed
\* since tail last read it, tail waits for an event, and every FileLines
\* made has been consumed.
Settles ==
    /\ fs_file.exists
    /\ watch_inc = fs_file.inc
    /\ ~ delivered.dirty
    /\ tail_pc = "recv"
    /\ DOMAIN delivered.open = {}

\* C18 as claimed, read in its weakest sense: no byte of the file at the
\* path is delivered twice, and whenever nothing is under way pos is the
\* number of bytes of the file delivered, every byte of it exactly once.
C18_AsClaimed ==
    /\ \A o \in Offsets : o < fs_file.len => delivered.count[o] <= 1
    /\ Settles =>
          /\ pos = Cardinality(DeliveredBytes)
          /\ \A o \in Offsets : o < fs_file.len => delivered.count[o] = 1

(***************************************************************************)
(* Claims about an update that misses.                                     *)
(***************************************************************************)
\* The batch of the call in hand carries the pair (to, id).
Carries(to, id) ==
    \E i \in 1..Len(call.arg) : call.arg[i].to = to /\ call.arg[i].id = id

\* A record is stored for the pair, and it has no subject.
StoredUnset(db, to, id) ==
    \E k \in 1..Len(Bucket(db, to)) :
        Bucket(db, to)[k].id = id /\ Bucket(db, to)[k].subject = None

\* A pair whose update missed, stored since, and not carried by an update
\* since it is stored: its record has no subject.
C15_State ==
    \A pr \in missed :
        CountId(MAIL_DB, pr[1], pr[2]) > 0 =>
            /\ StoredUnset(MAIL_DB, pr[1], pr[2])
            /\ CountId(MAIL_DB, pr[1], pr[2]) = 1

C15_Step ==
    \* an update that misses a pair stores nothing for it ...
    /\ Called("update") =>
          \A pr \in Misses(MAIL_DB, call.arg) :
              CountId(MAIL_DB', pr[1], pr[2]) = 0
    \* ... the insert that stores a missed pair stores it without subject ...
    /\ \A pr \in missed :
          (CountId(MAIL_DB, pr[1], pr[2]) = 0
              /\ CountId(MAIL_DB', pr[1], pr[2]) > 0)
            => Called("insert") /\ StoredUnset(MAIL_DB', pr[1], pr[2])
    \* ... and a record without subject gets one only from an update that
    \* carries its pair.
    /\ \A to \in DOMAIN MAIL_DB :
          \A k \in 1..Len(MAIL_DB[to]) :
              MAIL_DB[to][k].subject = None =>
                 \/ MAIL_DB'[to][k] = MAIL_DB[to][k]
                 \/ Called("update") /\ Carries(to, MAIL_DB[to][k].id)

\* C15: an update that misses is lost: update_mail_subjects called with a
\* (to, id) pair for which nothing is stored stores nothing; when
\* insert_mails later stores the pair, the record has no subject, and it
\* stays without subject through every step but an UpdateSubjects whose
\* batch carries the same pair.
C15_MissedUpdateIsLost == [](C15_State) /\ [][C15_Step]_vars

\* An update missed the pair (a@x, ID1), an insert stored the pair
\* afterwards, and another update, whose batch does not carry the pair, has
\* been applied since: the record is still without subject.
C15_Witness ==
    /\ <<"a@x", "ID1">> \in missed
    /\ StoredUnset(MAIL_DB, "a@x", "ID1")
    /\ call.phase = "returned"
    /\ call.op = "update"
    /\ call.arg # <<>>
    /\ ~ Carries("a@x", "ID1")

(***************************************************************************)
(* Claims about the query.                                                 *)
(***************************************************************************)
\* The step is find_mail handling a request: response' is what it answers.
Answers == response = NoResponse /\ response' # NoResponse

\* Response r is the found outcome and holds, under recipient `to`, exactly
\* one record with the id, whose subject is the given one.
FoundOne(r, to, id, subject) ==
    /\ r.status = "OK"
    /\ to \in DOMAIN r.results
    /\ Cardinality({ k \in 1..Len(r.results[to]) :
                       r.results[to][k].id = id }) = 1
    /\ \A k \in 1..Len(r.results[to]) :
          r.results[to][k].id = id => r.results[to][k].subject = subject

\* Every query without subject filter whose address filter is a substring
\* of `to` answers, when the table is db, as FoundOne says.
QueriesFindOne(db, to, id, subject) ==
    \A af \in AddressFilters :
        Contains(Chars(to), af) =>
            FoundOne(find_mail(db, Query(af, NoFilter)), to, id, subject)

\* C16 as claimed: whenever UpdateSubjects is applied with a record
\* (id, to, subject) whose pair has been inserted before, the query finds
\* one record with that id under `to`, and its subject is the incoming one.
C16_AsClaimed ==
    [][ Called("update") =>
          \A i \in 1..Len(call.arg) :
              CountId(MAIL_DB, call.arg[i].to, call.arg[i].id) > 0 =>
                  QueriesFindOne(MAIL_DB', call.arg[i].to, call.arg[i].id,
                                 call.arg[i].subject)
      ]_vars

C16_Step ==
    \* the update gives its subject to a record that has none, the first
    \* record of the batch for a pair going first ...
    /\ Called("update") =>
          \A i \in 1..Len(call.arg) :
              (/\ StoredUnset(MAIL_DB, call.arg[i].to, call.arg[i].id)
               /\ \A j \in 1..(i - 1) :
                     ~ (call.arg[j].to = call.arg[i].to
                           /\ call.arg[j].id = call.arg[i].id))
                => QueriesFindOne(MAIL_DB', call.arg[i].to, call.arg[i].id,
                                  call.arg[i].subject)
    \* ... a record that has a subject keeps it ...
    /\ \A to \in DOMAIN MAIL_DB :
          \A k \in 1..Len(MAIL_DB[to]) :
              MAIL_DB[to][k].subject # None =>
                  MAIL_DB'[to][k] = MAIL_DB[to][k]
    \* ... and find_mail answers from the table as it is then.
    /\ Answers =>
          /\ response' = find_mail(MAIL_DB, response'.query)
          /\ \A to \in DOMAIN MAIL_DB :
                \A k \in 1..Len(MAIL_DB[to]) :
                    (/\ MAIL_DB[to][k].subject # None
                     /\ ~ response'.query.subject_filter.is_some
                     /\ Contains(Chars(to),
                                 response'.query.email_address_filter))
                      => FoundOne(response', to, MAIL_DB[to][k].id,
                                  MAIL_DB[to][k].subject)

\* C16, amended: when the record inserted for (id, to) has no subject yet
\* and UpdateSubjects is applied with a record (id, to, subject), the first
\* of its batch for that pair, then from that step on every query without
\* subject filter whose address filter is a substring of `to` answers with
\* the found outcome and, under `to`, exactly one record with that id,
\* whose subject is that subject; a record that had a subject already
\* keeps the one it had.
C16_InsertUpdateQuery == [][C16_Step]_vars

\* The update with (ID1, a@x, s1) has set the subject of the inserted
\* record, and the query for "a" is answered with it.
C16_Witness ==
    /\ call.phase = "returned"
    /\ call.op = "update"
    /\ call.ret = 1
    /\ call.arg = <<Mail("ID1", None, "s1", "a@x")>>
    /\ response # NoResponse
    /\ response.query = Query(<<"a">>, NoFilter)
    /\ FoundOne(response, "a@x", "ID1", "s1")

\* One letter compared without regard to case: the three forms of sigma
\* are one letter.
Fold(c) == IF c = "final_sigma" THEN "sigma" ELSE LowerChar(c)

\* s contains pat when case is disregarded.
ContainsIgnoringCase(s, pat) ==
    Contains([i \in 1..Len(s) |-> Fold(s[i])],
             [i \in 1..Len(pat) |-> Fold(pat[i])])

\* The records of recipient k that query q is to return.
ClaimedRecordsOf(db, q, k) ==
    { db[k][i] : i \in
        { j \in 1..Len(db[k]) :
            q.subject_filter.is_some =>
               /\ db[k][j].subject # None
               /\ ContainsIgnoringCase(Chars(db[k][j].subject),
                                       q.subject_filter.v) } }

\* The recipients that query q is to return.
ClaimedRecipients(db, q) ==
    { k \in DOMAIN db :
        /\ Contains(Chars(k), q.email_address_filter)
        /\ ClaimedRecordsOf(db, q, k) # {} }

\* C17 as claimed: the query returns exactly the recipients whose address
\* contains the address filter and that keep a record after the subject
\* filter, each with exactly its records whose subject contains the subject
\* filter when case is disregarded (all its records without subject
\* filter, none without subject with one); the outcome is "not found"
\* exactly when that mapping is empty; the table is left as it is.
C17_AsClaimed ==
    [][ Answers =>
          LET q == response'.query
          IN  /\ MAIL_DB' = MAIL_DB
              /\ response'.status \in {"OK", "NOT_FOUND"}
              /\ response'.status = "NOT_FOUND"
                    <=> ClaimedRecipients(MAIL_DB, q) = {}
              /\ response'.status = "OK" =>
                    /\ DOMAIN response'.results = ClaimedRecipients(MAIL_DB, q)
                    /\ \A k \in DOMAIN response'.results :
                          /\ { response'.results[k][i] :
                                  i \in 1..Len(response'.results[k]) }
                                = ClaimedRecordsOf(MAIL_DB, q, k)
                          /\ Len(response'.results[k])
                                = Cardinality(ClaimedRecordsOf(MAIL_DB, q, k))
      ]_vars

(***************************************************************************)
(* Claims about the table as a whole.                                      *)
(***************************************************************************)
C22_State ==
    \A to \in DOMAIN MAIL_DB : MAIL_DB[to] # << >>

C22_Step ==
    /\ \A to \in DOMAIN MAIL_DB :
          /\ to \in DOMAIN MAIL_DB'
          /\ Len(MAIL_DB'[to]) >= Len(MAIL_DB[to])
          /\ \A k \in 1..Len(MAIL_DB[to]) :
                /\ MAIL_DB'[to][k].id = MAIL_DB[to][k].id
                /\ MAIL_DB'[to][k].to = MAIL_DB[to][k].to
                /\ MAIL_DB'[to][k].line = MAIL_DB[to][k].line
                /\ MAIL_DB[to][k].subject # None =>
                      MAIL_DB'[to][k].subject = MAIL_DB[to][k].subject
    /\ Answers => MAIL_DB' = MAIL_DB

\* C22: through every insert_mails, update_mail_subjects and find_mail no
\* bucket and no record is removed, no bucket is empty, a stored record
\* keeps its place in its bucket, its id, its recipient and its raw line,
\* and a subject once set stays as it is.
C22_GrowsWriteOnce == [](C22_State) /\ [][C22_Step]_vars

\* A bucket has grown to two records, the first with the subject s1; an
\* update with another subject for it has returned 0, and a query is being
\* answered from the table.
C22_Witness ==
    /\ call.phase = "returned"
    /\ call.op = "update"
    /\ call.arg = <<Mail("ID1", None, "s2", "a@x")>>
    /\ call.ret = 0
    /\ HasBucket(MAIL_DB, "a@x")
    /\ Len(MAIL_DB["a@x"]) = 2
    /\ MAIL_DB["a@x"][1].id = "ID1"
    /\ MAIL_DB["a@x"][1].subject = "s1"
    /\ response # NoResponse
    /\ response.status = "OK"

C20_State ==
    /\ Len(deferred) + chan["tail_mail"] = lines_sent["tail_mail"]
    /\ (main_pc # "exited" /\ consumer["tail_mail"] = "running"
           /\ chan["tail_mail"] > 0) => ENABLED ConsumeMail
    /\ (main_pc # "exited" /\ consumer["tail_mail_log"] = "running"
           /\ chan["tail_mail_log"] > 0) => ENABLED ConsumeLog

C20_Step ==
    /\ chan'["tail_mail"] < chan["tail_mail"] =>
          /\ deferred' = Append(deferred, [parsed |-> now, st |-> "asleep"])
          /\ UNCHANGED MAIL_DB
    /\ \A k \in DOMAIN deferred :
          /\ k \in DOMAIN deferred'
          /\ deferred'[k].parsed = deferred[k].parsed
          /\ deferred[k].st # "asleep" => deferred'[k] = deferred[k]
          /\ AppliesDeferred(k) =>
                /\ now >= deferred[k].parsed + delay
                /\ MAIL_DB' = update_mail_subjects(MAIL_DB, SubjectBatch).db
                /\ \A j \in DOMAIN deferred \ {k} : deferred'[j] = deferred[j]

\* C20: every FileLines the consumer of tail_mail parses gets a deferred
\* task of its own and is not applied by the consumer; a deferred task
\* applies its update once, and not before the delay has passed since the
\* parse; the consumer can take the next FileLines whatever sleeps, and so
\* can the consumer of the delivery log, whose insert may thus be applied
\* during the delay.
C20_DeferredAfterDelay == [](C20_State) /\ [][C20_Step]_vars

\* Two deferred tasks sleep at once, the delay of neither is over, and the
\* delivery-log pipeline has inserted meanwhile.
C20_Witness ==
    /\ Len(deferred) = 2
    /\ \A k \in 1..2 :
          deferred[k].st = "asleep" /\ now < deferred[k].parsed + delay
    /\ boot_pc = 0
    /\ HasBucket(MAIL_DB, "a@x")

(***************************************************************************)
(* Claims about the batches of the tailed mail file.                       *)
(***************************************************************************)
\* The lines of a parsed batch.
BatchLines(b) == SubSeq(mail_file, b.from + 1, b.to)

\* The batch has a marker line, and a To: value and a Subject: value at or
\* after its first marker line.
HasMarkedHeaders(lines) ==
    \E i \in 1..Len(lines) :
        /\ IsMarker(lines[i])
        /\ \E t, u \in i..Len(lines) :
              ToValue(lines[t]) # <<>> /\ SubjectValue(lines[u]) # <<>>

\* C23: the parser keeps nothing from one batch of the tailer to the next:
\* the records of every batch are those of its own lines parsed from Idle
\* with no captured field, and a batch that does not hold a marker line
\* together with a To: value and a Subject: value at or after it yields no
\* record, so a message whose marker line comes in one batch and whose To:
\* and Subject: lines come in a later batch yields no record in either.
C23_BatchesParsedAlone ==
    \A k \in 1..Len(batches.out) :
        LET b == batches.out[k]
        IN  /\ b.mails = parse_mail_subjects(BatchLines(b))
            /\ ~ HasMarkedHeaders(BatchLines(b)) => b.mails = << >>

\* Two batches, the second starting where the first ended: the marker line
\* of a message is in the first, its To: and Subject: lines are in the
\* second, neither batch yielded a record, and the file parsed in one piece
\* yields one.
C23_Witness ==
    /\ Len(batches.out) = 2
    /\ LET b1 == batches.out[1]
           b2 == batches.out[2]
       IN  /\ b2.from = b1.to
           /\ \E i \in (b1.from + 1)..b1.to : IsMarker(mail_file[i])
           /\ \A i \in (b2.from + 1)..b2.to : ~ IsMarker(mail_file[i])
           /\ \E t, u \in (b2.from + 1)..b2.to :
                 /\ ToValue(mail_file[t]) # <<>>
                 /\ SubjectValue(mail_file[u]) # <<>>
           /\ b1.mails = << >>
           /\ b2.mails = << >>
    /\ parse_mail_subjects(mail_file) # << >>

(***************************************************************************)
(* Claims about startup on a live file.                                    *)
(***************************************************************************)
\* The bytes of the live file that neither init_mail has read nor the
\* tailer has read or will read: those below the offset FileTail::new took
\* that init_mail did not reach.
UnreadByBoth ==
    { o \in 0..(live.len - 1) : o >= live.boot_to /\ o < live.start }

\* C21, as claimed: in every interleaving of init_mail and the tailer, once
\* init_mail has loaded the live file, which is one of its configured
\* files, and FileTail::new has taken the length of the file as its offset,
\* init_mail has read every byte below that offset: no byte of the file is
\* left unread by both.
C21_AsClaimed ==
    (live.listed /\ live.boot = "done" /\ live.tail = "tailing") =>
        UnreadByBoth = {}

====
